---- MODULE Spec2Model ----
(***************************************************************************)
(* Model of the quotes server (quotes_server): the QuotesSource generator, *)
(* the SubscriptionsHandler listener, the run_server / run_loop main       *)
(* thread, the ClientsHandler registry with its event consumer thread, and *)
(* the two worker threads of every SingleClientHandler session.            *)
(*                                                                         *)
(* Threads interleave at the granularity of their blocking or shared       *)
(* operations: channel send / recv / try_recv, RwLock acquisition, thread  *)
(* join.  Purely local computation between two such operations is merged   *)
(* into the preceding step.                                                *)
(*                                                                         *)
(* Spec      : the whole server, untimed.  Instant::now() read by a        *)
(*             liveness worker is an input (not expired / expired).        *)
(* FairSpec  : Spec with weak fairness on every thread of the server.      *)
(* TickSpec  : Spec with a generator that runs MaxSnapshots iterations.   *)
(* TimedSpec : one SingleClientHandler against a millisecond clock.        *)
(*                                                                         *)
(* The client (quotes_client) is modelled by ClientSpec and, with weak      *)
(* fairness on its threads, ClientFairSpec.  The conversions of quotes_lib *)
(* are operators on sequences of bytes or characters, applied to bounded   *)
(* inputs by DatagramSpec, QuoteSpec and SubscribeSpec.                    *)
(***************************************************************************)
EXTENDS Integers, Sequences, FiniteSets, TLC

\* ---------------------------------------------------------------- bounds

\* Subscriber addresses that appear in SUBSCRIBE lines.
Addrs == {"a1", "a2"}

\* Tickers the QuotesSource was started with (the ticker file).
ServerTickers == {"T1", "T2"}

\* The ticker list each subscriber asks for; "X" is not a key of the
\* snapshot, and the second list names a ticker twice.
TickersOf(a) == IF a = "a1" THEN <<"T2", "X", "T1">> ELSE <<"T1", "T1">>

\* Connections the SubscriptionsHandler accepts in one run.
MaxSubs == 2

\* Iterations of the quote generator in one run.
MaxTicks == 1

\* Iterations of the quote generator in one run of TickSpec.
MaxSnapshots == 2

\* Failing I/O operations (UdpSocket::bind, send_to) in one run.
MaxIoErrors == 1

\* Read timeouts explored beyond the ping timeout by the clock of TimedSpec.
TimeSlack == 2

\* Peers the client receives datagrams from.
Peers == {"p1", "p2"}

\* Events the QuotesListener sends in one run.
MaxClientEvents == 4

\* Byte values of the short payloads; 81 is the first byte of the magic.
PayloadBytes == {0, 81}

\* Length of the short payloads.
MaxPayloadLen == 2

\* Length of a payload whose length needs both bytes of the length field.
LongPayloadLen == 256

\* Streams longer than this are fed to the parser in one call only.
MaxSplitLen == 20

\* Tickers of the quotes that are encoded, as ASCII bytes: "A", "AB".
QuoteTickers == {<<65>>, <<65, 66>>}

\* Prices, as the eight bytes of the f64: 1.0 and 448.0.
QuotePrices == {<<63, 240, 0, 0, 0, 0, 0, 0>>, <<64, 124, 0, 0, 0, 0, 0, 0>>}

\* Volumes.
QuoteVolumes == {0, 1, 124, 1000}

\* Timestamps.
QuoteTimestamps == {0, 31744, 1700000000}

\* Addresses of the SubscribeMessages that are formatted.
MsgAddrs == {"a1", "a2"}

\* Tickers of those messages, as characters: "", "A", "AB".
MsgTickers == {<<>>, <<"A">>, <<"A", "B">>}

\* Length of their ticker lists.
MaxMsgTickers == 3

\* ------------------------------------------------------ program constants

\* MAX_ERRORS of Pinger::setup_thread.
MAX_ERRORS == 3

\* MAX_ERRORS of run_client.
RUN_CLIENT_MAX_ERRORS == 3

\* b"QDTG"
HEADER == <<81, 68, 84, 71>>

\* DATA_LEN_SIZE of ParseResult::from
DATA_LEN_SIZE == 2

\* u16::MAX, the largest length the length field holds.
U16_MAX == 65535

\* Quote::SPLITTER, b'|'
SPLITTER == 124

\* Duration::from_millis(250), in milliseconds.
SINGLE_READ_TIMEOUT == 250

\* Duration::from_secs(5), in milliseconds.
CLIENT_PING_TIMEOUT == 5000

\* Granularity of the clock of TimedSpec: datagrams arrive on this grid.
TickMs == SINGLE_READ_TIMEOUT \div 2

MaxTime == CLIENT_PING_TIMEOUT + TimeSlack * SINGLE_READ_TIMEOUT

Sids == 1..MaxSubs

Threads == {"main", "consumer"}

VARIABLES
    \* QuotesSource
    quotes,          \* generation of the shared snapshot; 0: the empty HashMap
    genPc,           \* generator thread: "install" | "emit" | "dead"
    ticksPending,    \* QuotesUpdated events queued on the tick channel
    ticksRecv,       \* QuotesUpdated events the main loop has received
    quotesReadHeld,  \* main holds the read guard of the snapshot lock
    clientsReadHeld, \* main holds the read guard of the registry lock
    \* SubscriptionsHandler
    listenerAlive,   \* the accept thread runs
    subsChan,        \* events queued on the subscription channel
    accepted,        \* connections accepted so far
    handlers,        \* handle_client threads reading their line: line -> count
    \* run_server / run_loop
    pc,              \* position of the main thread
    curEvent,        \* the NewClient event being handled
    result,          \* result of the ClientsHandler call the main loop made last,
                     \* "None" once the loop has received its next event
    \* ClientsHandler
    clients,         \* registry: address -> session id, 0: no entry
    clientsLock,     \* holder of the registry write guard, or "free"
    events,          \* SingleClientHandlerEvent channel
    rsPc,            \* remove_and_stop_clients per calling thread
    rsTodo,          \* addresses it still has to visit
    rsCur,           \* session whose stop() it is executing
    \* SingleClientHandler, per session id
    nextSid,         \* next unused session id
    sAddr,           \* address
    sTickers,        \* tickers
    chan,            \* command channel contents
    txAlive,         \* command_tx not yet dropped
    listen,          \* listen thread: "none" | "run" | "stopped" (by Stop) |
                     \* "timed_out" (Disconnected sent)
    send,            \* send thread: "none" | "run" | "done"
    wire,            \* the datagram socket.send_to sent in the step just taken
    last_ping_time,  \* local of the listen thread
    parser_failed,   \* the listen thread's DatagramParser holds a bad head
    \* history
    sReg,            \* "unused" | "in" | "removed" | "stopped"
    removedBy,       \* thread that took the session out of the registry
    ioErrors,        \* failed I/O operations so far
    \* clock (TimedSpec)
    now,             \* Instant::now(), ms
    recv_start,      \* when the listen thread entered recv_from
    created_at,      \* when SingleClientHandler::new ran
    ping_rx_at,      \* when recv_from last returned a PING datagram, -1: never
    \* quotes_client
    running,         \* the AtomicBool shared by the client's threads
    clientPc,        \* position of run_client
    ping_started,    \* local of run_client
    main_error_count,\* error_count of run_client
    event_rx,        \* QuotesListenerEvent channel
    ql_alive,        \* the QuotesListener thread runs
    emitted,         \* events the QuotesListener has sent
    command_rx,      \* PingerCommand channel
    pingerPc,        \* Pinger thread: "check" | "recv" | "ok" | "err"
    ping_address,    \* local of the Pinger thread, "none": None
    error_count,     \* local of the Pinger thread
    ping_wire,       \* target of the PING sent in the step just taken, or "none"
    first_peer,      \* history: peer of the first Message run_client received
    last_peer,       \* history: peer of the latest Message run_client received
    \* quotes_lib: DatagramParser
    frames,          \* payloads of the datagrams a well-formed stream encodes; <<>> for a stream with garbage
    stream,          \* bytes a caller feeds to one DatagramParser, in order
    pos,             \* how many of them it has fed
    calls,           \* calls of parse made so far
    buffer,          \* DatagramParser::buffer
    parse_out,       \* what the latest call of parse returned
    parsed_all,      \* history: the datagrams of all calls, concatenated
    failed_at,       \* history: the first call of parse that returned an error, or 0
    \* quotes_lib: Quote
    quotePc,         \* "idle" | "new" | "encoded" | "decoded"
    quote_in,        \* the Quote that is encoded
    quote_bytes,     \* Vec::<u8>::from(&quote_in)
    quote_out,       \* Quote::try_from(quote_bytes)
    \* quotes_lib: SubscribeMessage
    msgPc,           \* "idle" | "new" | "formatted" | "parsed"
    msg_in,          \* the SubscribeMessage that is formatted
    msg_text,        \* msg_in.to_string()
    msg_out          \* SubscribeMessage::try_from(msg_text)

serverVars == <<quotes, genPc, ticksPending, ticksRecv, quotesReadHeld, clientsReadHeld,
          listenerAlive, subsChan, accepted, handlers, pc, curEvent, result,
          clients, clientsLock, events, rsPc, rsTodo, rsCur,
          nextSid, sAddr, sTickers, chan, txAlive, listen, send, wire,
          last_ping_time, parser_failed, sReg, removedBy, ioErrors,
          now, recv_start, created_at, ping_rx_at>>

clientVars == <<running, clientPc, ping_started, main_error_count, event_rx, ql_alive,
                emitted, command_rx, pingerPc, ping_address, error_count, ping_wire,
                first_peer, last_peer>>

datagramVars == <<frames, stream, pos, calls, buffer, parse_out, parsed_all, failed_at>>
quoteVars == <<quotePc, quote_in, quote_bytes, quote_out>>
subscribeVars == <<msgPc, msg_in, msg_text, msg_out>>

libVars == <<datagramVars, quoteVars, subscribeVars>>

vars == <<serverVars, clientVars, libVars>>

sourceVars == <<quotes, genPc, ticksPending>>
listenerVars == <<listenerAlive, subsChan, accepted, handlers>>
rsVars == <<rsPc, rsTodo, rsCur>>
sessionIdVars == <<nextSid, sAddr, sTickers>>
clockVars == <<now, recv_start, created_at, ping_rx_at>>

\* ------------------------------------------------------------- messages

SendQuote(q) == [cmd |-> "SendQuote", quote |-> q]

Stop == [cmd |-> "Stop"]

Disconnected(a) == [type |-> "Disconnected", addr |-> a]

ErrorEvent(a) == [type |-> "Error", addr |-> a]

NewClient(a, ts) == [type |-> "NewClient", addr |-> a, tickers |-> ts]

SubsError == [type |-> "Error"]

NoEvent == [type |-> "None"]

NoDatagram == [sid |-> 0]

\* -------------------------------------------------------------- snapshot

\* Keys of the HashMap behind the quotes lock.
SnapshotKeys == IF quotes = 0 THEN {} ELSE ServerTickers

\* quotes.get(ticker) for a key of the map.
QuoteOf(t) == [ticker |-> t, gen |-> quotes]

\* Lines subscribers send, as the parts value.trim().split(" ") yields; the
\* third part is given as the list split(",") makes of it.  "foo" is no
\* socket address.
Lines ==
    {<<"SUBSCRIBE", a, TickersOf(a)>> : a \in Addrs}
        \cup {<<"SUBSCRIBE", "foo">>, <<"SUBSCRIBE", "foo", <<"T1">>>>}

\* Variant: the number of parts is not checked.
EventOfLineAnyLength(line) ==
    IF Len(line) >= 2 /\ line[1] = "SUBSCRIBE"
    THEN NewClient(IF line[2] \in Addrs THEN line[2] ELSE "a1",
                   IF Len(line) >= 3 THEN line[3] ELSE <<>>)
    ELSE SubsError

\* Event::from(SubscribeMessage::try_from(line))
EventOfLine(line) ==
    IF Len(line) = 3 /\ line[1] = "SUBSCRIBE"
    THEN IF line[2] \in Addrs THEN NewClient(line[2], line[3]) ELSE SubsError
    ELSE SubsError

\* run_client up to its loop: QuotesListener::new and Pinger::new have
\* spawned their threads.
ClientInit ==
    /\ running = TRUE
    /\ clientPc = "check"
    /\ ping_started = FALSE
    /\ main_error_count = 0
    /\ event_rx = <<>>
    /\ ql_alive = TRUE
    /\ emitted = 0
    /\ command_rx = <<>>
    /\ pingerPc = "check"
    /\ ping_address = "none"
    /\ error_count = 0
    /\ ping_wire = "none"
    /\ first_peer = "none"
    /\ last_peer = "none"

\* No DatagramParser call is being followed.
DatagramIdle ==
    /\ frames = <<>>
    /\ stream = <<>>
    /\ pos = 0
    /\ calls = 0
    /\ buffer = <<>>
    /\ parse_out = [ok |-> TRUE, datagrams |-> <<>>]
    /\ parsed_all = <<>>
    /\ failed_at = 0

NoQuote == [ticker |-> <<>>, price |-> <<>>, volume |-> 0, timestamp |-> 0]

\* No Quote conversion is being followed.
QuoteIdle ==
    /\ quotePc = "idle"
    /\ quote_in = NoQuote
    /\ quote_bytes = <<>>
    /\ quote_out = [ok |-> FALSE, quote |-> NoQuote]

NoMessage == [address |-> "a1", tickers |-> <<>>]

\* No SubscribeMessage conversion is being followed.
SubscribeIdle ==
    /\ msgPc = "idle"
    /\ msg_in = NoMessage
    /\ msg_text = <<>>
    /\ msg_out = [ok |-> FALSE, msg |-> NoMessage]

LibInit == DatagramIdle /\ QuoteIdle /\ SubscribeIdle

\* run_server up to run_loop: nothing has happened yet.
\* Variant: the generator sends QuotesUpdated before it installs.
generator_emits_first == "emit"

\* The body of the generator loop starts with generate_new_quotes() and the
\* write of the snapshot; the send of QuotesUpdated follows.
generator_loop_entry == "install"

ServerInit ==
    /\ quotes = 0
    /\ genPc = generator_loop_entry
    /\ ticksPending = 0
    /\ ticksRecv = 0
    /\ quotesReadHeld = FALSE
    /\ clientsReadHeld = FALSE
    /\ listenerAlive = TRUE
    /\ subsChan = <<>>
    /\ accepted = 0
    /\ handlers = [l \in Lines |-> 0]
    /\ pc = "select"
    /\ curEvent = NoEvent
    /\ result = "None"
    /\ clients = [a \in Addrs |-> 0]
    /\ clientsLock = "free"
    /\ events = <<>>
    /\ rsPc = [t \in Threads |-> "idle"]
    /\ rsTodo = [t \in Threads |-> {}]
    /\ rsCur = [t \in Threads |-> 0]
    /\ nextSid = 1
    /\ sAddr = [s \in Sids |-> "a1"]
    /\ sTickers = [s \in Sids |-> <<>>]
    /\ chan = [s \in Sids |-> <<>>]
    /\ txAlive = [s \in Sids |-> FALSE]
    /\ listen = [s \in Sids |-> "none"]
    /\ send = [s \in Sids |-> "none"]
    /\ wire = NoDatagram
    /\ last_ping_time = [s \in Sids |-> 0]
    /\ parser_failed = [s \in Sids |-> FALSE]
    /\ sReg = [s \in Sids |-> "unused"]
    /\ removedBy = [s \in Sids |-> "none"]
    /\ ioErrors = 0
    /\ now = 0
    /\ recv_start = [s \in Sids |-> 0]
    /\ created_at = [s \in Sids |-> 0]
    /\ ping_rx_at = [s \in Sids |-> -1]

Init == ClientInit /\ LibInit /\ ServerInit

\* ------------------------------------------------- SingleClientHandler

\* SingleClientHandler::new: binds the socket, creates the command channel and
\* spawns both workers.  The listen thread reads Instant::now() as it starts.
NewSession(s, a, ts, tnow) ==
    /\ sAddr' = [sAddr EXCEPT ![s] = a]
    /\ sTickers' = [sTickers EXCEPT ![s] = ts]
    /\ chan' = [chan EXCEPT ![s] = <<>>]
    /\ txAlive' = [txAlive EXCEPT ![s] = TRUE]
    /\ listen' = [listen EXCEPT ![s] = "run"]
    /\ send' = [send EXCEPT ![s] = "run"]
    /\ last_ping_time' = [last_ping_time EXCEPT ![s] = tnow]
    /\ nextSid' = s + 1

\* A receiver of the command channel exists: each worker owns one clone and
\* drops it when its thread ends.
HasReceiver(s) == listen[s] = "run" \/ send[s] = "run"

\* Variant: command_tx.send(..) fails once the listen thread has exited.
send_quote_needs_listener(s) == listen[s] = "run"

\* command_tx.send(..) succeeds unless every receiver has been dropped.
send_quote_ok(s) == HasReceiver(s)

\* DatagramParser::parse as the listen thread uses it.  A datagram with a bad
\* magic stays at the head of the buffer, so every later call fails as well.
\* The result is the list of payload kinds handed on to the ping check.
ParserFailedAfter(failed, dg) == failed \/ dg = "bad"

ParsedDatagrams(failed, dg) ==
    IF dg = "none" \/ ParserFailedAfter(failed, dg) THEN <<>> ELSE <<dg>>

\* Variant: any parsed datagram counts as a ping.
have_ping_any(datagrams) == datagrams # <<>>

\* datagrams.into_iter().any(|dg| PingMessage::try_from(..).is_ok())
have_ping(datagrams) == \E i \in 1..Len(datagrams) : datagrams[i] = "ping"

\* now - last_ping_time >= ping_timeout
timed_out(tnow, last) == tnow - last >= CLIENT_PING_TIMEOUT

\* One iteration of the loop of setup_listen_thread, from the return of
\* recv_from on.  dg is what recv_from delivered ("none": timeout or error),
\* tnow the value of Instant::now().
ListenIter(s, dg, tnow) ==
    /\ listen[s] = "run"
    /\ parser_failed' = [parser_failed EXCEPT ![s] = ParserFailedAfter(@, dg)]
    /\ LET datagrams == ParsedDatagrams(parser_failed[s], dg)
           got == IF chan[s] = <<>> THEN NoEvent ELSE Head(chan[s])
       IN  /\ chan' = [chan EXCEPT ![s] = IF @ = <<>> THEN @ ELSE Tail(@)]
           /\ IF got = Stop
              THEN /\ listen' = [listen EXCEPT ![s] = "stopped"]
                   /\ UNCHANGED <<events, last_ping_time>>
              ELSE IF timed_out(tnow, last_ping_time[s])
              THEN /\ events' = Append(events, Disconnected(sAddr[s]))
                   /\ listen' = [listen EXCEPT ![s] = "timed_out"]
                   /\ UNCHANGED last_ping_time
              ELSE /\ last_ping_time' =
                         [last_ping_time EXCEPT ![s] = IF have_ping(datagrams) THEN tnow ELSE @]
                   /\ UNCHANGED <<events, listen>>

\* Variant: recv() hands out the command enqueued last.
newest_command(s) == chan[s][Len(chan[s])]

\* command_rx.recv() on a channel that holds commands: the oldest one.
next_command(s) == Head(chan[s])

\* Variant: the send thread leaves its loop on any command.
send_breaks_on_any(c) == TRUE

\* The send thread leaves its loop on this command.
send_breaks_on(c) == c = Stop

\* One iteration of the loop of setup_send_thread: command_rx.recv() and the
\* handling of what it returned.  io_ok is the outcome of socket.send_to.
SendStep(s, io_ok) ==
    /\ send[s] = "run"
    /\ chan[s] # <<>> \/ ~txAlive[s]
    /\ IF chan[s] = <<>>
       THEN \* Err(RecvError): every sender is gone
            /\ send' = [send EXCEPT ![s] = "done"]
            /\ wire' = NoDatagram
            /\ UNCHANGED <<chan, events, ioErrors>>
       ELSE LET c == next_command(s) IN
            /\ chan' = [chan EXCEPT ![s] = Tail(@)]
            /\ IF send_breaks_on(c)
               THEN /\ send' = [send EXCEPT ![s] = "done"]
                    /\ wire' = NoDatagram
                    /\ UNCHANGED <<events, ioErrors>>
               ELSE IF io_ok
               THEN /\ wire' = [sid |-> s, quote |-> c.quote]
                    /\ UNCHANGED <<send, events, ioErrors>>
               ELSE \* event_tx.send(Error(..)) succeeds: ClientsHandler keeps
                    \* event_rx, so the break behind it is not taken
                    /\ ioErrors < MaxIoErrors
                    /\ ioErrors' = ioErrors + 1
                    /\ events' = Append(events, ErrorEvent(sAddr[s]))
                    /\ wire' = NoDatagram
                    /\ UNCHANGED send

\* Variant: stop() joins the threads without sending Stop.
stop_without_command(s) == chan[s]

\* Start of SingleClientHandler::stop: command_tx.send(Stop); a failure is
\* only logged.
StopSend(s) == IF HasReceiver(s) THEN Append(chan[s], Stop) ELSE chan[s]

\* ------------------------------------------------------ ClientsHandler

Registered == {s \in Sids : \E a \in Addrs : clients[a] = s}

\* Variant: a ticker absent from the snapshot ends the loop.
RECURSIVE FanOutTickersBreak(_, _, _)
FanOutTickersBreak(s, ts, acc) ==
    IF ts = <<>> THEN acc
    ELSE IF Head(ts) \in SnapshotKeys
         THEN IF send_quote_ok(s)
              THEN FanOutTickersBreak(s, Tail(ts),
                       [acc EXCEPT !.q = Append(@, SendQuote(QuoteOf(Head(ts))))])
              ELSE [acc EXCEPT !.err = TRUE]
         ELSE acc

\* The inner loop of handle_quotes_updated for one session: the commands it
\* enqueues, and whether send_quote failed (which ends the loop).
RECURSIVE FanOutTickers(_, _, _)
FanOutTickers(s, ts, acc) ==
    IF ts = <<>> THEN acc
    ELSE IF Head(ts) \in SnapshotKeys
         THEN IF send_quote_ok(s)
              THEN FanOutTickers(s, Tail(ts),
                       [acc EXCEPT !.q = Append(@, SendQuote(QuoteOf(Head(ts))))])
              ELSE [acc EXCEPT !.err = TRUE]
         ELSE FanOutTickers(s, Tail(ts), acc)

\* Variant: the entry stays in the map.
registry_keeps(a) == clients

\* guard.remove(addr)
registry_remove(a) == [clients EXCEPT ![a] = 0]

\* remove_and_stop_clients called by thread th with the addresses as: an
\* empty list returns Ok at once.
RSBegin(th, as) ==
    /\ rsTodo' = [rsTodo EXCEPT ![th] = as]
    /\ rsPc' = [rsPc EXCEPT ![th] = IF as = {} THEN "idle" ELSE "lock"]
    /\ UNCHANGED rsCur

\* Variant: the write guard is handed out whatever guards are held.
write_lock_ignored == TRUE

\* RwLock::write() on the registry returns: no thread holds the write guard
\* and the main thread does not hold the read guard.
write_lock_free == clientsLock = "free" /\ ~clientsReadHeld

\* clients.write()
RSLock(th) ==
    /\ rsPc[th] = "lock"
    /\ write_lock_free
    /\ clientsLock' = th
    /\ rsPc' = [rsPc EXCEPT ![th] = "iter"]
    /\ wire' = NoDatagram
    /\ UNCHANGED <<sourceVars, ticksRecv, quotesReadHeld, clientsReadHeld, listenerVars, pc, curEvent,
                   result, clients, events, rsTodo, rsCur, sessionIdVars, chan,
                   txAlive, listen, send, last_ping_time, parser_failed,
                   sReg, removedBy, ioErrors, clockVars,
                   clientVars, libVars>>

\* guard.remove(addr) and, for an entry found, the start of client.stop().
\* The write guard stays held.
RSNext(th) ==
    /\ rsPc[th] = "iter"
    /\ \E a \in rsTodo[th] :
         /\ rsTodo' = [rsTodo EXCEPT ![th] = @ \ {a}]
         /\ IF clients[a] = 0
            THEN UNCHANGED <<clients, chan, rsPc, rsCur, sReg, removedBy>>
            ELSE LET s == clients[a] IN
                 /\ clients' = registry_remove(a)
                 /\ chan' = [chan EXCEPT ![s] = StopSend(s)]
                 /\ rsCur' = [rsCur EXCEPT ![th] = s]
                 /\ rsPc' = [rsPc EXCEPT ![th] = "join_listen"]
                 /\ sReg' = [sReg EXCEPT ![s] = "removed"]
                 /\ removedBy' = [removedBy EXCEPT ![s] = th]
    /\ wire' = NoDatagram
    /\ UNCHANGED <<sourceVars, ticksRecv, quotesReadHeld, clientsReadHeld, listenerVars, pc, curEvent,
                   result, clientsLock, events, sessionIdVars,
                   txAlive, listen, send, last_ping_time, parser_failed,
                   ioErrors, clockVars,
                   clientVars, libVars>>

\* self.listen_thread.join()
RSJoinListen(th) ==
    /\ rsPc[th] = "join_listen"
    /\ listen[rsCur[th]] \in {"stopped", "timed_out"}
    /\ rsPc' = [rsPc EXCEPT ![th] = "join_send"]
    /\ wire' = NoDatagram
    /\ UNCHANGED <<sourceVars, ticksRecv, quotesReadHeld, clientsReadHeld, listenerVars, pc, curEvent,
                   result, clients, clientsLock, events, rsTodo, rsCur, sessionIdVars,
                   chan, txAlive, listen, send, last_ping_time, parser_failed,
                   sReg, removedBy, ioErrors, clockVars,
                   clientVars, libVars>>

\* self.send_thread.join(); stop() returns and drops what is left of self,
\* command_tx included: the channel and what it still holds are freed.
RSJoinSend(th) ==
    /\ rsPc[th] = "join_send"
    /\ send[rsCur[th]] = "done"
    /\ rsPc' = [rsPc EXCEPT ![th] = "iter"]
    /\ rsCur' = [rsCur EXCEPT ![th] = 0]
    /\ txAlive' = [txAlive EXCEPT ![rsCur[th]] = FALSE]
    /\ chan' = [chan EXCEPT ![rsCur[th]] = <<>>]
    /\ sReg' = [sReg EXCEPT ![rsCur[th]] = "stopped"]
    /\ wire' = NoDatagram
    /\ UNCHANGED <<sourceVars, ticksRecv, quotesReadHeld, clientsReadHeld, listenerVars, pc, curEvent,
                   result, clients, clientsLock, events, rsTodo, sessionIdVars,
                   listen, send, last_ping_time, parser_failed,
                   removedBy, ioErrors, clockVars,
                   clientVars, libVars>>

\* End of remove_and_stop_clients: the write guard is dropped and the call
\* returns Ok to its caller.
RSDone(th) ==
    /\ rsPc[th] = "iter"
    /\ rsTodo[th] = {}
    /\ clientsLock' = "free"
    /\ rsPc' = [rsPc EXCEPT ![th] = "idle"]
    /\ IF th = "main"
       THEN /\ pc' = IF pc = "fan_remove" THEN "select" ELSE "ch_join"
            /\ result' = "Ok"
       ELSE UNCHANGED <<pc, result>>
    /\ wire' = NoDatagram
    /\ UNCHANGED <<sourceVars, ticksRecv, quotesReadHeld, clientsReadHeld, listenerVars, curEvent,
                   clients, events, rsTodo, rsCur, sessionIdVars, chan,
                   txAlive, listen, send, last_ping_time, parser_failed,
                   sReg, removedBy, ioErrors, clockVars,
                   clientVars, libVars>>

\* handle_quotes_updated, first lock: self.quotes.read()
HQUReadQuotes ==
    /\ pc = "fan_quotes"
    /\ quotesReadHeld' = TRUE
    /\ pc' = "fan_clients"
    /\ wire' = NoDatagram
    /\ UNCHANGED <<sourceVars, ticksRecv, clientsReadHeld, listenerVars, curEvent, result, clients,
                   clientsLock, events, rsVars, sessionIdVars, chan, txAlive,
                   listen, send, last_ping_time, parser_failed, sReg,
                   removedBy, ioErrors, clockVars,
                   clientVars, libVars>>

\* handle_quotes_updated, second lock: self.clients.read(), granted when no
\* thread holds the write guard.
HQUReadClients ==
    /\ pc = "fan_clients"
    /\ clientsLock = "free"
    /\ clientsReadHeld' = TRUE
    /\ pc' = "fan_send"
    /\ wire' = NoDatagram
    /\ UNCHANGED <<sourceVars, ticksRecv, quotesReadHeld, listenerVars, curEvent, result,
                   clients, clientsLock, events, rsVars, sessionIdVars, chan, txAlive,
                   listen, send, last_ping_time, parser_failed, sReg,
                   removedBy, ioErrors, clockVars,
                   clientVars, libVars>>

\* handle_quotes_updated after the two locks: the loop over the registry
\* under both read guards, their release at the end of the block, and the
\* call of remove_and_stop_clients.  The enqueues of one call go to unbounded
\* channels and commute with the dequeues of the workers.
HQUFanOut ==
    /\ pc = "fan_send"
    /\ LET r == [s \in Sids |->
                   IF s \in Registered
                   THEN FanOutTickers(s, sTickers[s], [q |-> <<>>, err |-> FALSE])
                   ELSE [q |-> <<>>, err |-> FALSE]]
           clients_with_errors == {sAddr[s] : s \in {x \in Registered : r[x].err}}
       IN  /\ chan' = [s \in Sids |-> chan[s] \o r[s].q]
           /\ RSBegin("main", clients_with_errors)
           /\ IF clients_with_errors = {}
              THEN pc' = "select" /\ result' = "Ok"
              ELSE pc' = "fan_remove" /\ UNCHANGED result
    /\ quotesReadHeld' = FALSE
    /\ clientsReadHeld' = FALSE
    /\ wire' = NoDatagram
    /\ UNCHANGED <<sourceVars, ticksRecv, listenerVars, curEvent, clients,
                   clientsLock, events, sessionIdVars, txAlive,
                   listen, send, last_ping_time, parser_failed, sReg,
                   removedBy, ioErrors, clockVars,
                   clientVars, libVars>>

\* Variant: an entry whose listen thread has ended counts as vacant.
entry_occupied_while_listening(a) == clients[a] # 0 /\ listen[clients[a]] = "run"

\* Variant: the entry is never found occupied.
new_client_replaces(a) == FALSE

\* guard.entry(address) is Entry::Occupied
entry_occupied(a) == clients[a] # 0

\* Variant: run_loop returns when a handler has failed.
loop_returns_on_error(res) == IF res = "Ok" THEN "select" ELSE "ch_stop"

\* The match on the event in run_loop: an error of a handler is logged and
\* the loop goes to its next iteration.
loop_after(res) == "select"

\* handle_new_client for the event held in curEvent; bind_ok is the outcome
\* of UdpSocket::bind and set_read_timeout in SingleClientHandler::new.
HandleNewClient(bind_ok) ==
    /\ pc = "new_client"
    /\ write_lock_free
    /\ pc' = loop_after(IF entry_occupied(curEvent.addr) THEN "AddressAlreadyInUse"
                        ELSE IF bind_ok THEN "Ok" ELSE "Io")
    /\ curEvent' = NoEvent
    /\ LET a == curEvent.addr
           s == nextSid
       IN  IF entry_occupied(a)
           THEN /\ result' = "AddressAlreadyInUse"
                /\ UNCHANGED <<clients, sessionIdVars, chan, txAlive, listen, send,
                               last_ping_time, sReg, ioErrors, recv_start, created_at>>
           ELSE IF bind_ok
           THEN /\ NewSession(s, a, curEvent.tickers, now)
                /\ clients' = [clients EXCEPT ![a] = s]
                /\ sReg' = [sReg EXCEPT ![s] = "in"]
                /\ recv_start' = [recv_start EXCEPT ![s] = now]
                /\ created_at' = [created_at EXCEPT ![s] = now]
                /\ result' = "Ok"
                /\ UNCHANGED ioErrors
           ELSE /\ ioErrors < MaxIoErrors
                /\ ioErrors' = ioErrors + 1
                /\ result' = "Io"
                /\ UNCHANGED <<clients, sessionIdVars, chan, txAlive, listen, send,
                               last_ping_time, sReg, recv_start, created_at>>
    /\ wire' = NoDatagram
    /\ UNCHANGED <<sourceVars, ticksRecv, quotesReadHeld, clientsReadHeld, listenerVars, clientsLock,
                   events, rsVars, parser_failed, removedBy, now, ping_rx_at,
                   clientVars, libVars>>

\* Variant: the consumer removes the session of any event.
consumer_removes_on_any(ev) == TRUE

\* The match of the consumer loop: Disconnected leads to
\* remove_and_stop_clients, Error is only logged.
consumer_removes_on(ev) == ev.type = "Disconnected"

\* The thread spawned by ClientsHandler::start: event_rx.recv() and the
\* handling of the event up to the call of remove_and_stop_clients.
ConsumerRecv ==
    /\ rsPc["consumer"] = "idle"
    /\ events # <<>>
    /\ events' = Tail(events)
    /\ IF consumer_removes_on(Head(events))
       THEN RSBegin("consumer", {Head(events).addr})
       ELSE UNCHANGED rsVars
    /\ wire' = NoDatagram
    /\ UNCHANGED <<sourceVars, ticksRecv, quotesReadHeld, clientsReadHeld, listenerVars, pc, curEvent,
                   result, clients, clientsLock, sessionIdVars, chan, txAlive,
                   listen, send, last_ping_time, parser_failed, sReg,
                   removedBy, ioErrors, clockVars,
                   clientVars, libVars>>

\* ClientsHandler::stop up to handle.join(): the keys are collected under the
\* read guard, then remove_and_stop_clients is called.  handle.join() waits
\* for the consumer thread, whose loop has no exit while the lock is not
\* poisoned, so the main thread stays at "ch_join".
ClientsHandlerStop ==
    /\ pc = "ch_stop"
    /\ clientsLock = "free"
    /\ LET all_clients == {a \in Addrs : clients[a] # 0}
       IN  /\ RSBegin("main", all_clients)
           /\ pc' = IF all_clients = {} THEN "ch_join" ELSE "ch_remove"
    /\ wire' = NoDatagram
    /\ UNCHANGED <<sourceVars, ticksRecv, quotesReadHeld, clientsReadHeld, listenerVars, curEvent,
                   result, clients, clientsLock, events, sessionIdVars, chan,
                   txAlive, listen, send, last_ping_time, parser_failed,
                   sReg, removedBy, ioErrors, clockVars,
                   clientVars, libVars>>

\* ---------------------------------------------------------- QuotesSource

\* run_loop has returned: quotes_rx and subscriptions_rx are dropped.
RxDropped == pc \in {"ch_stop", "ch_remove", "ch_join"}

\* Variant: the snapshot is replaced whatever guards are held.
snapshot_write_ignored == TRUE

\* RwLock::write() on the snapshot returns: the main thread does not hold
\* the read guard.
snapshot_write_free == ~quotesReadHeld

\* Generator loop: generate_new_quotes() and *quotes.write() = new_quotes,
\* for a generator that installs at most n snapshots.
GenInstallUpTo(n) ==
    /\ genPc = "install"
    /\ quotes < n
    /\ snapshot_write_free
    /\ quotes' = quotes + 1
    /\ genPc' = "emit"
    /\ wire' = NoDatagram
    /\ UNCHANGED <<ticksPending, ticksRecv, quotesReadHeld, clientsReadHeld, listenerVars, pc, curEvent,
                   result, clients, clientsLock, events, rsVars, sessionIdVars, chan,
                   txAlive, listen, send, last_ping_time, parser_failed,
                   sReg, removedBy, ioErrors, clockVars,
                   clientVars, libVars>>

\* The generator as the runs of Spec bound it.
GenInstall == GenInstallUpTo(MaxTicks)

\* Generator loop: tx.send(Event::QuotesUpdated), then the sleep.  A failed
\* send ends the thread.
GenEmit ==
    /\ genPc = "emit"
    /\ IF RxDropped
       THEN genPc' = "dead" /\ UNCHANGED ticksPending
       ELSE genPc' = "install" /\ ticksPending' = ticksPending + 1
    /\ wire' = NoDatagram
    /\ UNCHANGED <<quotes, ticksRecv, quotesReadHeld, clientsReadHeld, listenerVars, pc, curEvent,
                   result, clients, clientsLock, events, rsVars, sessionIdVars, chan,
                   txAlive, listen, send, last_ping_time, parser_failed,
                   sReg, removedBy, ioErrors, clockVars,
                   clientVars, libVars>>

\* -------------------------------------------------- SubscriptionsHandler

\* listener.incoming() yields a connection: handle_client spawns the thread
\* that will read its line, with a clone of tx.
Accept(line) ==
    /\ listenerAlive
    /\ accepted < MaxSubs
    /\ accepted' = accepted + 1
    /\ handlers' = [handlers EXCEPT ![line] = @ + 1]
    /\ wire' = NoDatagram
    /\ UNCHANGED <<sourceVars, ticksRecv, quotesReadHeld, clientsReadHeld, listenerAlive, subsChan, pc,
                   curEvent, result, clients, clientsLock, events, rsVars,
                   sessionIdVars, chan, txAlive, listen, send, last_ping_time,
                   parser_failed, sReg, removedBy, ioErrors, clockVars,
                   clientVars, libVars>>

\* The thread of handle_client: read_line returns, the line is converted to
\* an Event and sent; a send to a dropped receiver is only logged.
HandleClient(line) ==
    /\ handlers[line] > 0
    /\ handlers' = [handlers EXCEPT ![line] = @ - 1]
    /\ subsChan' = IF RxDropped THEN subsChan ELSE Append(subsChan, EventOfLine(line))
    /\ wire' = NoDatagram
    /\ UNCHANGED <<sourceVars, ticksRecv, quotesReadHeld, clientsReadHeld, listenerAlive, accepted, pc,
                   curEvent, result, clients, clientsLock, events, rsVars,
                   sessionIdVars, chan, txAlive, listen, send, last_ping_time,
                   parser_failed, sReg, removedBy, ioErrors, clockVars,
                   clientVars, libVars>>

\* TcpListener::bind or listener.incoming() returns an error: the accept
\* thread returns and drops tx.
ListenerFail ==
    /\ listenerAlive
    /\ listenerAlive' = FALSE
    /\ wire' = NoDatagram
    /\ UNCHANGED <<sourceVars, ticksRecv, quotesReadHeld, clientsReadHeld, subsChan, accepted, handlers, pc,
                   curEvent, result, clients, clientsLock, events, rsVars,
                   sessionIdVars, chan, txAlive, listen, send, last_ping_time,
                   parser_failed, sReg, removedBy, ioErrors, clockVars,
                   clientVars, libVars>>

\* -------------------------------------------------- run_server, run_loop

\* select.ready() names the tick channel and quotes_rx.recv() returns an event.
LoopRecvQuotes ==
    /\ pc = "select"
    /\ ticksPending > 0
    /\ ticksPending' = ticksPending - 1
    /\ ticksRecv' = ticksRecv + 1
    /\ pc' = "fan_quotes"
    /\ result' = "None"
    /\ wire' = NoDatagram
    /\ UNCHANGED <<quotes, genPc, quotesReadHeld, clientsReadHeld, listenerVars, curEvent,
                   clients, clientsLock, events, rsVars, sessionIdVars, chan,
                   txAlive, listen, send, last_ping_time, parser_failed,
                   sReg, removedBy, ioErrors, clockVars,
                   clientVars, libVars>>

\* select.ready() names the subscription channel and subscriptions_rx.recv()
\* returns an event; Event::Error is logged within the step.
LoopRecvSubs ==
    /\ pc = "select"
    /\ subsChan # <<>>
    /\ subsChan' = Tail(subsChan)
    /\ IF Head(subsChan).type = "NewClient"
       THEN pc' = "new_client" /\ curEvent' = Head(subsChan)
       ELSE UNCHANGED <<pc, curEvent>>
    /\ result' = "None"
    /\ wire' = NoDatagram
    /\ UNCHANGED <<sourceVars, ticksRecv, quotesReadHeld, clientsReadHeld, listenerAlive, accepted,
                   handlers, clients, clientsLock, events, rsVars, sessionIdVars, chan,
                   txAlive, listen, send, last_ping_time, parser_failed,
                   sReg, removedBy, ioErrors, clockVars,
                   clientVars, libVars>>

\* A recv() on an empty channel whose senders are gone returns Err: run_loop
\* returns it and run_server goes on to clients_handler.stop().  The
\* generator thread ends only on a failed send, that is after run_loop has
\* returned, so it is the subscription channel that is lost first.
LoopChannelLost ==
    /\ pc = "select"
    /\ \/ ticksPending = 0 /\ genPc = "dead"
       \/ subsChan = <<>> /\ ~listenerAlive /\ \A l \in Lines : handlers[l] = 0
    /\ pc' = "ch_stop"
    /\ wire' = NoDatagram
    /\ UNCHANGED <<sourceVars, ticksRecv, quotesReadHeld, clientsReadHeld, listenerVars, curEvent,
                   result, clients, clientsLock, events, rsVars, sessionIdVars, chan,
                   txAlive, listen, send, last_ping_time, parser_failed,
                   sReg, removedBy, ioErrors, clockVars,
                   clientVars, libVars>>

\* ------------------------------------------------------- session threads

\* Values Instant::now() can take for the timeout check when no clock is
\* modelled: before and after the expiry of the ping timeout.
NowInputs(s) == {last_ping_time[s], last_ping_time[s] + CLIENT_PING_TIMEOUT}

ListenStep(s) ==
    \E dg \in {"none", "ping"}, tnow \in NowInputs(s) :
        /\ ListenIter(s, dg, tnow)
        /\ wire' = NoDatagram
        /\ UNCHANGED <<sourceVars, ticksRecv, quotesReadHeld, clientsReadHeld, listenerVars, pc,
                       curEvent, result, clients, clientsLock, rsVars,
                       sessionIdVars, txAlive, send, sReg, removedBy,
                       ioErrors, clockVars,
                   clientVars, libVars>>

\* The iteration in which the ping timeout is found expired.
ListenExpire(s) ==
    /\ ListenIter(s, "none", last_ping_time[s] + CLIENT_PING_TIMEOUT)
    /\ wire' = NoDatagram
    /\ UNCHANGED <<sourceVars, ticksRecv, quotesReadHeld, clientsReadHeld, listenerVars, pc,
                   curEvent, result, clients, clientsLock, rsVars,
                   sessionIdVars, txAlive, send, sReg, removedBy,
                   ioErrors, clockVars,
                   clientVars, libVars>>

SendThreadStep(s) ==
    \E io_ok \in BOOLEAN :
        /\ SendStep(s, io_ok)
        /\ UNCHANGED <<sourceVars, ticksRecv, quotesReadHeld, clientsReadHeld, listenerVars, pc,
                       curEvent, result, clients, clientsLock, rsVars,
                       sessionIdVars, txAlive, listen, last_ping_time,
                       parser_failed, sReg, removedBy, clockVars,
                   clientVars, libVars>>

Next ==
    \/ GenInstall
    \/ GenEmit
    \/ \E line \in Lines : Accept(line)
    \/ \E line \in Lines : HandleClient(line)
    \/ ListenerFail
    \/ LoopRecvQuotes
    \/ LoopRecvSubs
    \/ LoopChannelLost
    \/ HQUReadQuotes
    \/ HQUReadClients
    \/ HQUFanOut
    \/ \E bind_ok \in BOOLEAN : HandleNewClient(bind_ok)
    \/ ClientsHandlerStop
    \/ ConsumerRecv
    \/ \E th \in Threads : RSLock(th)
    \/ \E th \in Threads : RSNext(th)
    \/ \E th \in Threads : RSJoinListen(th)
    \/ \E th \in Threads : RSJoinSend(th)
    \/ \E th \in Threads : RSDone(th)
    \/ \E s \in Sids : ListenStep(s)
    \/ \E s \in Sids : SendThreadStep(s)

Spec == Init /\ [][Next]_vars

\* TickSpec: the server with a generator that runs MaxSnapshots iterations,
\* so that a snapshot can be replaced while an earlier QuotesUpdated is
\* still queued or being handled.
TickNext ==
    \/ GenInstallUpTo(MaxSnapshots)
    \/ GenEmit
    \/ \E line \in Lines : Accept(line)
    \/ \E line \in Lines : HandleClient(line)
    \/ ListenerFail
    \/ LoopRecvQuotes
    \/ LoopRecvSubs
    \/ LoopChannelLost
    \/ HQUReadQuotes
    \/ HQUReadClients
    \/ HQUFanOut
    \/ \E bind_ok \in BOOLEAN : HandleNewClient(bind_ok)
    \/ ClientsHandlerStop
    \/ ConsumerRecv
    \/ \E th \in Threads : RSLock(th)
    \/ \E th \in Threads : RSNext(th)
    \/ \E th \in Threads : RSJoinListen(th)
    \/ \E th \in Threads : RSJoinSend(th)
    \/ \E th \in Threads : RSDone(th)
    \/ \E s \in Sids : ListenStep(s)
    \/ \E s \in Sids : SendThreadStep(s)

TickSpec == Init /\ [][TickNext]_vars

\* ------------------------------------------------------------- fairness

MainStep ==
    \/ LoopRecvQuotes
    \/ LoopRecvSubs
    \/ LoopChannelLost
    \/ HQUReadQuotes
    \/ HQUReadClients
    \/ HQUFanOut
    \/ \E bind_ok \in BOOLEAN : HandleNewClient(bind_ok)
    \/ ClientsHandlerStop
    \/ RSLock("main") \/ RSNext("main") \/ RSJoinListen("main")
    \/ RSJoinSend("main") \/ RSDone("main")

ConsumerStep ==
    \/ ConsumerRecv
    \/ RSLock("consumer") \/ RSNext("consumer") \/ RSJoinListen("consumer")
    \/ RSJoinSend("consumer") \/ RSDone("consumer")

\* Every thread of the server that can take a step eventually takes one.
\* Connections and listener failures come from outside and are not forced.
\* Every subscriber is assumed to fall silent for a ping timeout at some
\* point, so a listen thread that keeps running does find the timeout
\* expired: the assumption most favourable to the termination of stop().
FairSpec ==
    /\ Spec
    /\ WF_vars(MainStep)
    /\ WF_vars(ConsumerStep)
    /\ WF_vars(GenInstall)
    /\ WF_vars(GenEmit)
    /\ \A s \in Sids : WF_vars(SendThreadStep(s))
    /\ \A s \in Sids : WF_vars(ListenStep(s))
    /\ \A s \in Sids : WF_vars(ListenExpire(s))

\* ---------------------------------------------------------------- clock

\* TimedSpec starts where the main loop has received the NewClient event of
\* one subscriber; the clock runs while the session is created and lives.
TimedInit ==
    /\ ClientInit
    /\ LibInit
    /\ quotes = 0
    /\ genPc = "install"
    /\ ticksPending = 0
    /\ ticksRecv = 0
    /\ quotesReadHeld = FALSE
    /\ clientsReadHeld = FALSE
    /\ listenerAlive = TRUE
    /\ subsChan = <<>>
    /\ accepted = 1
    /\ handlers = [l \in Lines |-> 0]
    /\ pc = "new_client"
    /\ curEvent = NewClient("a1", TickersOf("a1"))
    /\ result = "None"
    /\ clients = [a \in Addrs |-> 0]
    /\ clientsLock = "free"
    /\ events = <<>>
    /\ rsPc = [t \in Threads |-> "idle"]
    /\ rsTodo = [t \in Threads |-> {}]
    /\ rsCur = [t \in Threads |-> 0]
    /\ nextSid = 1
    /\ sAddr = [s \in Sids |-> "a1"]
    /\ sTickers = [s \in Sids |-> <<>>]
    /\ chan = [s \in Sids |-> <<>>]
    /\ txAlive = [s \in Sids |-> FALSE]
    /\ listen = [s \in Sids |-> "none"]
    /\ send = [s \in Sids |-> "none"]
    /\ wire = NoDatagram
    /\ last_ping_time = [s \in Sids |-> 0]
    /\ parser_failed = [s \in Sids |-> FALSE]
    /\ sReg = [s \in Sids |-> "unused"]
    /\ removedBy = [s \in Sids |-> "none"]
    /\ ioErrors = 0
    /\ now = 0
    /\ recv_start = [s \in Sids |-> 0]
    /\ created_at = [s \in Sids |-> 0]
    /\ ping_rx_at = [s \in Sids |-> -1]

\* Instants at which a recv_from in progress returns with a timeout.
Deadlines == {recv_start[s] + SINGLE_READ_TIMEOUT : s \in {x \in Sids : listen[x] = "run"}}

Min(S) == CHOOSE x \in S : \A y \in S : x <= y

\* Time passes, but not beyond the read timeout of a blocked recv_from.
Tick ==
    /\ now < MaxTime
    /\ nextSid = 1 => now < SINGLE_READ_TIMEOUT
    /\ LET d == Min({TickMs} \cup {t - now : t \in Deadlines})
       IN  /\ d > 0
           /\ now' = now + d
    /\ wire' = NoDatagram
    /\ UNCHANGED <<sourceVars, ticksRecv, quotesReadHeld, clientsReadHeld, listenerVars, pc, curEvent,
                   result, clients, clientsLock, events, rsVars, sessionIdVars, chan,
                   txAlive, listen, send, last_ping_time, parser_failed, sReg,
                   removedBy, ioErrors, recv_start, created_at, ping_rx_at,
                   clientVars, libVars>>

\* recv_from of the listen thread returns at the instant now: with the
\* datagram that arrives then, or with a timeout once the read timeout is
\* over; the rest of the iteration takes no time.
TimedListen(s, dg) ==
    /\ dg = "none" => now = recv_start[s] + SINGLE_READ_TIMEOUT
    /\ ListenIter(s, dg, now)
    /\ recv_start' = [recv_start EXCEPT ![s] = now]
    /\ ping_rx_at' = [ping_rx_at EXCEPT ![s] = IF dg = "ping" THEN now ELSE @]
    /\ wire' = NoDatagram
    /\ UNCHANGED <<sourceVars, ticksRecv, quotesReadHeld, clientsReadHeld, listenerVars, pc,
                   curEvent, result, clients, clientsLock, rsVars,
                   sessionIdVars, txAlive, send, sReg, removedBy,
                   ioErrors, now, created_at,
                   clientVars, libVars>>

TimedNext ==
    \/ \E bind_ok \in BOOLEAN : HandleNewClient(bind_ok)
    \/ Tick
    \/ \E s \in Sids, dg \in {"none", "ping", "other", "bad"} : TimedListen(s, dg)

TimedSpec == TimedInit /\ [][TimedNext]_vars

\* --------------------------------------------------------- quotes_client

Message(peer) == [type |-> "Message", peer |-> peer]

ListenerError == [type |-> "Error"]

Start(peer) == [cmd |-> "Start", addr |-> peer]

\* The QuotesListener thread sends an event for what recv_from returned: a
\* message of a peer, or an error.  run_client keeps event_rx until it has
\* joined this thread, so the send succeeds.
QLEmit(ev) ==
    /\ ql_alive
    /\ emitted < MaxClientEvents
    /\ emitted' = emitted + 1
    /\ event_rx' = Append(event_rx, ev)
    /\ ping_wire' = "none"
    /\ UNCHANGED <<serverVars, libVars, running, clientPc, ping_started, main_error_count,
                   ql_alive, command_rx, pingerPc, ping_address, error_count, first_peer, last_peer>>

\* The QuotesListener thread finds running false and returns.
QLExit ==
    /\ ql_alive
    /\ ~running
    /\ ql_alive' = FALSE
    /\ ping_wire' = "none"
    /\ UNCHANGED <<serverVars, libVars, running, clientPc, ping_started, main_error_count,
                   event_rx, emitted, command_rx, pingerPc, ping_address, error_count,
                   first_peer, last_peer>>

\* The Ctrl-C handler.
CtrlC ==
    /\ running
    /\ clientPc # "done"
    /\ running' = FALSE
    /\ ping_wire' = "none"
    /\ UNCHANGED <<serverVars, libVars, clientPc, ping_started, main_error_count, event_rx,
                   ql_alive, emitted, command_rx, pingerPc, ping_address, error_count,
                   first_peer, last_peer>>

\* while running.load(..) of run_client
MainCheck ==
    /\ clientPc = "check"
    /\ clientPc' = IF running THEN "recv" ELSE "shutdown"
    /\ ping_wire' = "none"
    /\ UNCHANGED <<serverVars, libVars, running, ping_started, main_error_count, event_rx,
                   ql_alive, emitted, command_rx, pingerPc, ping_address, error_count,
                   first_peer, last_peer>>

\* Variant: the pinger is started on every Message.
start_always == TRUE

\* if !ping_started
should_start_ping == ~ping_started

\* pinger.start_ping(address) succeeds while the Pinger thread holds command_rx.
start_ping_ok == pingerPc \in {"check", "recv"}

\* Variant: the loop is left when the errors exceed MAX_ERRORS.
main_too_many_errors_after(count) == count > RUN_CLIENT_MAX_ERRORS

\* if error_count >= MAX_ERRORS of run_client
main_too_many_errors(count) == count >= RUN_CLIENT_MAX_ERRORS

\* Variant: a clone of event_tx outlives the QuotesListener thread.
event_tx_kept == FALSE

\* The QuotesListener thread owns the only event_tx; it is dropped when the
\* thread returns, and event_rx.recv() then fails on the empty channel.
event_tx_dropped == ~ql_alive

\* event_rx.recv() of run_client and the handling of what it returned.
MainRecv ==
    /\ clientPc = "recv"
    /\ event_rx # <<>> \/ event_tx_dropped
    /\ IF event_rx = <<>>
       THEN \* Err(e): the listener thread has dropped event_tx
            /\ clientPc' = "shutdown"
            /\ UNCHANGED <<event_rx, ping_started, main_error_count, command_rx,
                           first_peer, last_peer>>
       ELSE LET event == Head(event_rx) IN
            /\ event_rx' = Tail(event_rx)
            /\ IF event.type = "Message"
               THEN /\ first_peer' = IF first_peer = "none" THEN event.peer ELSE first_peer
                    /\ last_peer' = event.peer
                    /\ UNCHANGED main_error_count
                    /\ IF should_start_ping
                       THEN IF start_ping_ok
                            THEN /\ command_rx' = Append(command_rx, Start(event.peer))
                                 /\ ping_started' = TRUE
                                 /\ clientPc' = "check"
                            ELSE /\ clientPc' = "shutdown"
                                 /\ UNCHANGED <<command_rx, ping_started>>
                       ELSE /\ clientPc' = "check"
                            /\ UNCHANGED <<command_rx, ping_started>>
               ELSE /\ main_error_count' = main_error_count + 1
                    /\ clientPc' = IF main_too_many_errors(main_error_count + 1)
                                   THEN "shutdown" ELSE "check"
                    /\ UNCHANGED <<command_rx, ping_started, first_peer, last_peer>>
    /\ ping_wire' = "none"
    /\ UNCHANGED <<serverVars, libVars, running, ql_alive, emitted, pingerPc, ping_address,
                   error_count>>

\* running.store(false) after the loop of run_client
MainShutdown ==
    /\ clientPc = "shutdown"
    /\ running' = FALSE
    /\ clientPc' = "join_pinger"
    /\ ping_wire' = "none"
    /\ UNCHANGED <<serverVars, libVars, ping_started, main_error_count, event_rx, ql_alive,
                   emitted, command_rx, pingerPc, ping_address, error_count,
                   first_peer, last_peer>>

\* pinger.shutdown(): the join of the Pinger thread
MainJoinPinger ==
    /\ clientPc = "join_pinger"
    /\ pingerPc \in {"ok", "err"}
    /\ clientPc' = "join_listener"
    /\ ping_wire' = "none"
    /\ UNCHANGED <<serverVars, libVars, running, ping_started, main_error_count, event_rx,
                   ql_alive, emitted, command_rx, pingerPc, ping_address, error_count,
                   first_peer, last_peer>>

\* quotes_listener.shutdown(): the join of the listener thread; run_client
\* returns and drops event_rx.
MainJoinListener ==
    /\ clientPc = "join_listener"
    /\ ~ql_alive
    /\ clientPc' = "done"
    /\ event_rx' = <<>>
    /\ ping_wire' = "none"
    /\ UNCHANGED <<serverVars, libVars, running, ping_started, main_error_count,
                   ql_alive, emitted, command_rx, pingerPc, ping_address, error_count,
                   first_peer, last_peer>>

\* while running.load(..) of the Pinger thread
PingerCheck ==
    /\ pingerPc = "check"
    /\ pingerPc' = IF running THEN "recv" ELSE "ok"
    /\ ping_wire' = "none"
    /\ UNCHANGED <<serverVars, libVars, running, clientPc, ping_started, main_error_count,
                   event_rx, ql_alive, emitted, command_rx, ping_address, error_count,
                   first_peer, last_peer>>

\* The match on Start(socket_addr): the address is taken only while there is
\* none yet.
ping_address_after(cur, addr) == IF cur = "none" THEN addr ELSE cur

\* if error_count >= MAX_ERRORS
too_many_errors(count) == count >= MAX_ERRORS

\* One iteration of the Pinger thread: command_rx.recv_timeout(interval)
\* returns the queued command or, with none queued, the timeout; then the
\* PING is sent if there is an address.  io_ok is the outcome of send_to.
PingerIter(io_ok) ==
    /\ pingerPc = "recv"
    /\ command_rx' = IF command_rx = <<>> THEN command_rx ELSE Tail(command_rx)
    /\ ping_address' = IF command_rx = <<>> THEN ping_address
                       ELSE ping_address_after(ping_address, Head(command_rx).addr)
    /\ IF ping_address' = "none"
       THEN /\ io_ok
            /\ pingerPc' = "check"
            /\ ping_wire' = "none"
            /\ UNCHANGED error_count
       ELSE IF io_ok
       THEN /\ ping_wire' = ping_address'
            /\ error_count' = 0
            /\ pingerPc' = "check"
       ELSE /\ ping_wire' = "none"
            /\ error_count' = error_count + 1
            /\ pingerPc' = IF too_many_errors(error_count + 1) THEN "err" ELSE "check"
    /\ UNCHANGED <<serverVars, libVars, running, clientPc, ping_started, main_error_count,
                   event_rx, ql_alive, emitted, first_peer, last_peer>>

ClientEvents == {Message(p) : p \in Peers} \cup {ListenerError}

ClientNext ==
    \/ \E ev \in ClientEvents : QLEmit(ev)
    \/ QLExit
    \/ CtrlC
    \/ MainCheck
    \/ MainRecv
    \/ MainShutdown
    \/ MainJoinPinger
    \/ MainJoinListener
    \/ PingerCheck
    \/ \E io_ok \in BOOLEAN : PingerIter(io_ok)

\* The client alone: the server's variables keep their initial values.
ClientSpec == Init /\ [][ClientNext]_vars

\* run_client's own steps.
ClientMainStep ==
    MainCheck \/ MainRecv \/ MainShutdown \/ MainJoinPinger \/ MainJoinListener

\* The Pinger thread's steps; recv_timeout(interval) always returns.
PingerStep == PingerCheck \/ \E io_ok \in BOOLEAN : PingerIter(io_ok)

\* Every thread of the client that can take a step eventually does.  The
\* QuotesListener's recv_from has a read timeout, after which the thread
\* tests the flag again; no datagram has to arrive.
ClientFairSpec ==
    /\ ClientSpec
    /\ WF_vars(ClientMainStep)
    /\ WF_vars(PingerStep)
    /\ WF_vars(QLExit)

\* ------------------------------------------------- quotes_lib: datagram

\* Variant: the length is written low byte first.
u16_to_le_bytes(n) == <<n % 256, (n % (U16_MAX + 1)) \div 256>>

\* (n as u16).to_be_bytes()
u16_to_be_bytes(n) == <<(n % (U16_MAX + 1)) \div 256, n % 256>>

\* u16::from_be_bytes
u16_from_be_bytes(b) == b[1] * 256 + b[2]

\* impl Into<Vec<u8>> for Datagram
DatagramInto(data) == HEADER \o u16_to_be_bytes(Len(data)) \o data

\* Datagram::bytes_length
bytes_length(data) == Len(HEADER) + DATA_LEN_SIZE + Len(data)

\* impl From<&[u8]> for ParseResult
ParseResultFrom(value) ==
    LET mandatory_len == Len(HEADER) + DATA_LEN_SIZE IN
    IF Len(value) < mandatory_len
    THEN [kind |-> "NotEnoughBytes"]
    ELSE IF SubSeq(value, 1, Len(HEADER)) # HEADER
    THEN [kind |-> "Error"]
    ELSE LET data_len == u16_from_be_bytes(SubSeq(value, Len(HEADER) + 1, mandatory_len))
             total_len == data_len + mandatory_len
         IN  IF Len(value) < total_len
             THEN [kind |-> "NotEnoughBytes"]
             ELSE [kind |-> "Datagram",
                   data |-> SubSeq(value, mandatory_len + 1, mandatory_len + data_len)]

\* Variant: the buffer is emptied when parse fails.
parse_error_clearing(buf, found) == [ok |-> FALSE, datagrams |-> <<>>, buffer |-> <<>>]

\* Variant: the error comes with the datagrams found before it.
parse_error_returning(buf, found) == [ok |-> FALSE, datagrams |-> found, buffer |-> buf]

\* return Err(QuotesError::ParseDatagramError): the datagrams found so far
\* in this call are dropped and the buffer, from which they have been
\* drained, stays as it is.
parse_error(buf, found) == [ok |-> FALSE, datagrams |-> <<>>, buffer |-> buf]

\* The loop of DatagramParser::parse on the buffer buf, with the datagrams
\* found so far.
RECURSIVE parse_loop(_, _)
parse_loop(buf, datagrams) ==
    LET r == ParseResultFrom(buf) IN
    IF r.kind = "Datagram"
    THEN LET rest == SubSeq(buf, bytes_length(r.data) + 1, Len(buf))
             found == Append(datagrams, r.data)
         IN  IF Len(rest) = 0
             THEN [ok |-> TRUE, datagrams |-> found, buffer |-> rest]
             ELSE parse_loop(rest, found)
    ELSE IF r.kind = "NotEnoughBytes"
    THEN [ok |-> TRUE, datagrams |-> datagrams, buffer |-> buf]
    ELSE parse_error(buf, datagrams)

\* Variant: what an earlier call left in the buffer is forgotten.
parse_fresh(buf, data) == parse_loop(data, <<>>)

\* DatagramParser::parse(&mut self, data)
parse(buf, data) == parse_loop(buf \o data, <<>>)

\* Sequences over S of length at most n.
SeqsUpTo(S, n) == UNION {[1..k -> S] : k \in 0..n}

ShortPayloads == SeqsUpTo(PayloadBytes, MaxPayloadLen)

\* Payloads of a single datagram: the short ones, one that needs the high
\* byte of the length, the longest the length field holds, and one byte more.
Payloads ==
    ShortPayloads \cup {[i \in 1..n |-> 0] : n \in {LongPayloadLen, U16_MAX, U16_MAX + 1}}

\* Inputs whose first four bytes are not the magic.
Garbage == {<<0, 0, 0, 0, 0, 0>>, <<81, 68, 84, 255, 0, 0>>, <<71, 84, 68, 81, 0, 1, 0>>}

\* What a caller feeds to one fresh parser: one datagram, two datagrams,
\* garbage followed by a datagram, or a datagram followed by garbage.
DatagramInit ==
    /\ ClientInit /\ ServerInit /\ QuoteIdle /\ SubscribeIdle
    /\ \/ \E v \in Payloads :
            /\ frames = <<v>>
            /\ stream = DatagramInto(v)
       \/ \E d1 \in ShortPayloads, d2 \in ShortPayloads :
            /\ frames = <<d1, d2>>
            /\ stream = DatagramInto(d1) \o DatagramInto(d2)
       \/ \E g \in Garbage, d \in ShortPayloads :
            /\ frames = <<>>
            /\ stream = g \o DatagramInto(d)
       \/ \E d \in ShortPayloads, g \in Garbage :
            /\ frames = <<>>
            /\ stream = DatagramInto(d) \o g
    /\ pos = 0
    /\ calls = 0
    /\ buffer = <<>>
    /\ parse_out = [ok |-> TRUE, datagrams |-> <<>>]
    /\ parsed_all = <<>>
    /\ failed_at = 0

\* Sizes of the next chunk, with left bytes still to feed.
ChunkLens(left) == IF left > MaxSplitLen THEN {left} ELSE 1..left

\* One call of parse with the next n bytes of the stream.
Parse(n) ==
    /\ pos < Len(stream)
    /\ n \in ChunkLens(Len(stream) - pos)
    /\ LET r == parse(buffer, SubSeq(stream, pos + 1, pos + n))
       IN  /\ buffer' = r.buffer
           /\ parse_out' = [ok |-> r.ok, datagrams |-> r.datagrams]
           /\ parsed_all' = parsed_all \o r.datagrams
           /\ failed_at' = IF failed_at = 0 /\ ~r.ok THEN calls + 1 ELSE failed_at
    /\ pos' = pos + n
    /\ calls' = calls + 1
    /\ UNCHANGED <<serverVars, clientVars, frames, stream, quoteVars, subscribeVars>>

DatagramNext == \E n \in 1..(Len(stream) - pos) : Parse(n)

DatagramSpec == DatagramInit /\ [][DatagramNext]_vars

\* ---------------------------------------------------- quotes_lib: quote

\* to_be_bytes of an unsigned integer of w bytes
RECURSIVE to_be_bytes(_, _)
to_be_bytes(n, w) == IF w = 0 THEN <<>> ELSE Append(to_be_bytes(n \div 256, w - 1), n % 256)

\* from_be_bytes
RECURSIVE from_be_bytes(_)
from_be_bytes(b) ==
    IF b = <<>> THEN 0 ELSE from_be_bytes(SubSeq(b, 1, Len(b) - 1)) * 256 + b[Len(b)]

\* impl Into<Vec<u8>> for &Quote; price holds the bytes of the f64.
QuoteInto(q) ==
    q.ticker \o <<SPLITTER>> \o q.price \o <<SPLITTER>>
        \o to_be_bytes(q.volume, 4) \o <<SPLITTER>> \o to_be_bytes(q.timestamp, 8)

\* split of a slice or of a str at every occurrence of sep: one part more
\* than there are separators, empty parts included.
RECURSIVE split(_, _)
split(value, sep) ==
    IF \A i \in 1..Len(value) : value[i] # sep
    THEN <<value>>
    ELSE LET k == CHOOSE i \in 1..Len(value) :
                      value[i] = sep /\ \A j \in 1..(i - 1) : value[j] # sep
         IN  <<SubSeq(value, 1, k - 1)>> \o split(SubSeq(value, k + 1, Len(value)), sep)

\* .filter(|part| !part.is_empty())
RECURSIVE non_empty(_)
non_empty(parts) ==
    IF parts = <<>> THEN <<>>
    ELSE IF Head(parts) = <<>> THEN non_empty(Tail(parts))
    ELSE <<Head(parts)>> \o non_empty(Tail(parts))

\* value.split(|b| *b == Quote::SPLITTER).filter(..).collect()
quote_parts(value) == non_empty(split(value, SPLITTER))

\* String::from_utf8 on ASCII bytes
from_utf8_ok(bytes) == \A i \in 1..Len(bytes) : bytes[i] < 128

\* impl TryFrom<&[u8]> for Quote
QuoteTryFrom(value) ==
    LET parts == quote_parts(value) IN
    IF Len(parts) # 4
    THEN [ok |-> FALSE, quote |-> NoQuote]
    ELSE IF \/ Len(parts[1]) < 1
            \/ Len(parts[2]) # 8
            \/ Len(parts[3]) # 4
            \/ Len(parts[4]) # 8
    THEN [ok |-> FALSE, quote |-> NoQuote]
    ELSE IF ~from_utf8_ok(parts[1])
    THEN [ok |-> FALSE, quote |-> NoQuote]
    ELSE [ok |-> TRUE,
          quote |-> [ticker |-> parts[1], price |-> parts[2],
                     volume |-> from_be_bytes(parts[3]),
                     timestamp |-> from_be_bytes(parts[4])]]

QuoteInit ==
    /\ ClientInit /\ ServerInit /\ DatagramIdle /\ SubscribeIdle
    /\ quotePc = "new"
    /\ quote_in \in [ticker : QuoteTickers, price : QuotePrices,
                      volume : QuoteVolumes, timestamp : QuoteTimestamps]
    /\ quote_bytes = <<>>
    /\ quote_out = [ok |-> FALSE, quote |-> NoQuote]

\* Vec::<u8>::from(&quote)
QuoteEncode ==
    /\ quotePc = "new"
    /\ quote_bytes' = QuoteInto(quote_in)
    /\ quotePc' = "encoded"
    /\ UNCHANGED <<serverVars, clientVars, datagramVars, subscribeVars, quote_in, quote_out>>

\* Quote::try_from(bytes)
QuoteDecode ==
    /\ quotePc = "encoded"
    /\ quote_out' = QuoteTryFrom(quote_bytes)
    /\ quotePc' = "decoded"
    /\ UNCHANGED <<serverVars, clientVars, datagramVars, subscribeVars, quote_in, quote_bytes>>

QuoteNext == QuoteEncode \/ QuoteDecode

QuoteSpec == QuoteInit /\ [][QuoteNext]_vars

\* ---------------------------------------- quotes_lib: subscribe_message

\* SubscribeMessage::HEADER; a text is a sequence of characters, in which the
\* header and an address are one element each.
SUBSCRIBE == "SUBSCRIBE"

\* tickers.join(",")
RECURSIVE join(_, _)
join(strs, sep) ==
    IF strs = <<>> THEN <<>>
    ELSE IF Len(strs) = 1 THEN strs[1]
    ELSE strs[1] \o <<sep>> \o join(Tail(strs), sep)

\* impl Display for SubscribeMessage
SubscribeFmt(m) == <<SUBSCRIBE, " ", m.address, " ">> \o join(m.tickers, ",")

\* str::trim
RECURSIVE trim(_)
trim(text) ==
    IF text = <<>> THEN text
    ELSE IF Head(text) = " " THEN trim(Tail(text))
    ELSE IF text[Len(text)] = " " THEN trim(SubSeq(text, 1, Len(text) - 1))
    ELSE text

\* parts[1].parse::<SocketAddrV4>() succeeds on the text of an address.
parse_address_ok(part) == Len(part) = 1 /\ part[1] \in MsgAddrs

\* impl TryFrom<&str> for SubscribeMessage
SubscribeTryFrom(value) ==
    LET parts == split(trim(value), " ") IN
    IF Len(parts) = 3 /\ parts[1] = <<SUBSCRIBE>>
    THEN IF parse_address_ok(parts[2])
         THEN [ok |-> TRUE, msg |-> [address |-> parts[2][1], tickers |-> split(parts[3], ",")]]
         ELSE [ok |-> FALSE, msg |-> NoMessage]
    ELSE [ok |-> FALSE, msg |-> NoMessage]

SubscribeInit ==
    /\ ClientInit /\ ServerInit /\ DatagramIdle /\ QuoteIdle
    /\ msgPc = "new"
    /\ msg_in \in [address : MsgAddrs, tickers : SeqsUpTo(MsgTickers, MaxMsgTickers)]
    /\ msg_text = <<>>
    /\ msg_out = [ok |-> FALSE, msg |-> NoMessage]

\* message.to_string()
SubscribeFormat ==
    /\ msgPc = "new"
    /\ msg_text' = SubscribeFmt(msg_in)
    /\ msgPc' = "formatted"
    /\ UNCHANGED <<serverVars, clientVars, datagramVars, quoteVars, msg_in, msg_out>>

\* SubscribeMessage::try_from(text)
SubscribeParse ==
    /\ msgPc = "formatted"
    /\ msg_out' = SubscribeTryFrom(msg_text)
    /\ msgPc' = "parsed"
    /\ UNCHANGED <<serverVars, clientVars, datagramVars, quoteVars, msg_in, msg_text>>

SubscribeNext == SubscribeFormat \/ SubscribeParse

SubscribeSpec == SubscribeInit /\ [][SubscribeNext]_vars

\* --------------------------------------------------------------- claims

\* The step in which handle_quotes_updated runs its loop over the registry.
FanOutStep == pc = "fan_send" /\ pc' # "fan_send"

\* The step that is one whole call of handle_new_client.
NewClientStep == pc = "new_client" /\ pc' = "select"

\* The step in which the listen thread of s sends Disconnected.
DisconnectStep(s) == listen[s] = "run" /\ listen'[s] = "timed_out"

\* C1: one handle_quotes_updated call appends to the command channel of every
\* session in the registry a SendQuote for exactly the tickers of its list
\* that are keys of the snapshot, in list order; absent tickers are skipped,
\* the call returns Ok, nothing is removed from the registry and the channels
\* of sessions outside the registry are left alone.
C1_FanOutExactlyPresentTickers ==
    [][FanOutStep =>
         /\ pc' = "select"
         /\ result' = "Ok"
         /\ clients' = clients
         /\ \A s \in Sids :
              LET present == SelectSeq(sTickers[s], LAMBDA t : t \in SnapshotKeys)
                  expected == [i \in 1..Len(present) |->
                                 [cmd |-> "SendQuote",
                                  quote |-> [ticker |-> present[i], gen |-> quotes]]]
              IN  chan'[s] = chan[s] \o (IF s \in Registered THEN expected ELSE <<>>)]_vars

\* Two sessions are registered, the snapshot is filled, and the fan-out has
\* just returned Ok: the session with the list T2, X, T1 holds T2 and T1 in
\* that order, the other one its ticker once for every time it is listed.
C1_Witness ==
    /\ pc = "select"
    /\ result = "Ok"
    /\ quotes > 0
    /\ \E s1, s2 \in Registered :
         /\ sTickers[s1] = <<"T2", "X", "T1">>
         /\ chan[s1] = <<SendQuote(QuoteOf("T2")), SendQuote(QuoteOf("T1"))>>
         /\ sTickers[s2] = <<"T1", "T1">>
         /\ chan[s2] = <<SendQuote(QuoteOf("T1")), SendQuote(QuoteOf("T1"))>>

\* C2: handle_new_client for an address that is a key of the registry returns
\* AddressAlreadyInUse, creates no session and no workers, and leaves the
\* registry and every existing session as they were.
C2_DuplicateAddressRejected ==
    [][(NewClientStep /\ clients[curEvent.addr] # 0) =>
         /\ result' = "AddressAlreadyInUse"
         /\ clients' = clients
         /\ nextSid' = nextSid
         /\ UNCHANGED <<sAddr, sTickers, chan, txAlive, listen, send, sReg>>]_vars

\* The call has just returned AddressAlreadyInUse while the session of some
\* address is registered with both workers running.
C2_Witness ==
    /\ result = "AddressAlreadyInUse"
    /\ \E a \in Addrs :
         /\ clients[a] # 0
         /\ listen[clients[a]] = "run"
         /\ send[clients[a]] = "run"
         /\ sTickers[clients[a]] = TickersOf(a)

\* C3: a session that has received no PING sends Disconnected no earlier than
\* CLIENT_PING_TIMEOUT and no later than CLIENT_PING_TIMEOUT +
\* SINGLE_READ_TIMEOUT after its creation: while it still runs the upper end
\* of the window has not passed, and no session at all sends Disconnected
\* before a full CLIENT_PING_TIMEOUT since its creation.
C3_TimeoutWindow ==
    [][\A s \in Sids :
         /\ DisconnectStep(s) => now' - created_at[s] >= CLIENT_PING_TIMEOUT
         /\ (DisconnectStep(s) /\ ping_rx_at'[s] = -1) =>
                now' - created_at[s] <= CLIENT_PING_TIMEOUT + SINGLE_READ_TIMEOUT
         /\ (listen'[s] = "run" /\ ping_rx_at'[s] = -1) =>
                now' - created_at'[s] <= CLIENT_PING_TIMEOUT + SINGLE_READ_TIMEOUT]_vars

\* A session without any PING has sent Disconnected strictly inside the
\* window, after a datagram that was no PING restarted its recv_from.
C3_Witness ==
    \E s \in Sids :
        /\ listen[s] = "timed_out"
        /\ ping_rx_at[s] = -1
        /\ Disconnected(sAddr[s]) = events[Len(events)]
        /\ now - created_at[s] = CLIENT_PING_TIMEOUT + TickMs

\* C4: a session whose listen thread received a parseable PING at t1 does not
\* send Disconnected before t1 + CLIENT_PING_TIMEOUT.
C4_PingAppliedBeforeTimeoutCheck ==
    [][\A s \in Sids :
         (DisconnectStep(s) /\ ping_rx_at'[s] # -1 /\ ~parser_failed'[s]) =>
             now' >= ping_rx_at'[s] + CLIENT_PING_TIMEOUT]_vars

\* C5: a session whose listen thread has sent Disconnected is eventually out
\* of the registry with both workers joined.
C5_DisconnectedEventuallyStopped ==
    \A s \in Sids :
        (listen[s] = "timed_out") ~> (sReg[s] = "stopped" /\ clients[sAddr[s]] # s)

\* C6: no session that the consumer thread took out of the registry after a
\* Disconnected event transmits a quote datagram from then on.
C6_NoDatagramAfterRemoval ==
    [][wire'.sid # 0 => removedBy'[wire'.sid] # "consumer"]_vars

\* C7: when the last session of an address has been removed and stopped,
\* handle_new_client for that address does not return AddressAlreadyInUse,
\* and where UdpSocket::bind succeeds it returns Ok and the registry holds
\* exactly one session of the address, the new one with running workers.
C7_ReAddAfterRemoval ==
    [][\A a \in Addrs :
         (/\ NewClientStep
          /\ curEvent.addr = a
          /\ \E s \in 1..(nextSid - 1) :
                /\ sAddr[s] = a
                /\ sReg[s] = "stopped"
                /\ \A s2 \in (s + 1)..(nextSid - 1) : sAddr[s2] # a)
         => /\ result' # "AddressAlreadyInUse"
            /\ result' = "Ok" =>
                 /\ clients'[a] = nextSid
                 /\ sReg[nextSid] = "unused"
                 /\ listen'[nextSid] = "run" /\ send'[nextSid] = "run"
                 /\ {s \in Sids : sReg'[s] = "in" /\ sAddr'[s] = a} = {nextSid}
            /\ result' # "Ok" => clients'[a] = 0]_vars

\* The first session of an address is removed and stopped, and the second
\* handle_new_client for the address has returned Ok with a new session.
C7_Witness ==
    /\ result = "Ok"
    /\ \E s1, s2 \in Sids :
         /\ s1 < s2
         /\ sAddr[s1] = sAddr[s2]
         /\ sReg[s1] = "stopped"
         /\ sReg[s2] = "in"
         /\ clients[sAddr[s2]] = s2
         /\ listen[s2] = "run" /\ send[s2] = "run"

\* C8: every SingleClientHandler::stop that has been called returns.
C8_StopReturns ==
    \A s \in Sids : (sReg[s] = "removed") ~> (sReg[s] = "stopped")

\* The consumer thread has left its loop.
ConsumerExited == rsPc["consumer"] = "exited"

\* C9: when ClientsHandler::stop has removed and stopped every session and
\* waits in handle.join(), the consumer thread ends, so that stop returns
\* with the registry empty.
C9_RegistryStopReturns ==
    (pc = "ch_join") ~> (ConsumerExited /\ Registered = {})

\* C10: once run_loop has returned on a lost channel, run_server gets past
\* clients_handler.stop() to its other two stop steps and returns.
C10_RunServerReturns ==
    (pc = "ch_stop") ~> (pc \notin {"ch_stop", "ch_remove", "ch_join"})

\* SubscriptionsHandler::stop has been called by run_server.
SubscriptionsStopStarted == pc = "sub_stop"

C12_SendOrder ==
    [][\A s \in Sids :
         /\ wire'.sid = s =>
              /\ chan[s] # <<>>
              /\ Head(chan[s]) = [cmd |-> "SendQuote", quote |-> wire'.quote]
              /\ chan'[s] = Tail(chan[s])
         /\ \E k \in 0..Len(chan[s]) :
              /\ Len(chan'[s]) >= Len(chan[s]) - k
              /\ SubSeq(chan'[s], 1, Len(chan[s]) - k) =
                     SubSeq(chan[s], k + 1, Len(chan[s]))]_vars

\* The session with the list T2, X, T1 has just transmitted the quote of T2
\* while the quote of T1, enqueued after it, is still in the channel.
C12_Witness ==
    \E s \in Sids :
        /\ wire = [sid |-> s, quote |-> QuoteOf("T2")]
        /\ sTickers[s] = <<"T2", "X", "T1">>
        /\ chan[s] # <<>>
        /\ Head(chan[s]) = SendQuote(QuoteOf("T1"))

\* C13: the step in which socket.send_to of a send thread fails (the Error
\* event is sent) ends that send thread.
C13_SendErrorExits ==
    [][\A s \in Sids :
         (send[s] = "run" /\ chan[s] # <<>> /\ chan'[s] = Tail(chan[s])
            /\ events' = Append(events, ErrorEvent(sAddr[s])))
         => send'[s] = "done"]_vars

\* ------------------------------------------------- after a failed send_to

\* SendErrSpec starts in the state Spec reaches after two generator
\* iterations when the only session, that of a1, has had its first fan-out
\* and socket.send_to has failed for the first of its two quotes: the Error
\* event is queued and the second QuotesUpdated is waiting for the main loop.
SendErrInit ==
    /\ ClientInit
    /\ LibInit
    /\ quotes = 2
    /\ genPc = "install"
    /\ ticksPending = 1
    /\ ticksRecv = 1
    /\ quotesReadHeld = FALSE
    /\ clientsReadHeld = FALSE
    /\ listenerAlive = TRUE
    /\ subsChan = <<>>
    /\ accepted = 1
    /\ handlers = [l \in Lines |-> 0]
    /\ pc = "select"
    /\ curEvent = NoEvent
    /\ result = "Ok"
    /\ clients = [a \in Addrs |-> IF a = "a1" THEN 1 ELSE 0]
    /\ clientsLock = "free"
    /\ events = <<ErrorEvent("a1")>>
    /\ rsPc = [t \in Threads |-> "idle"]
    /\ rsTodo = [t \in Threads |-> {}]
    /\ rsCur = [t \in Threads |-> 0]
    /\ nextSid = 2
    /\ sAddr = [s \in Sids |-> "a1"]
    /\ sTickers = [s \in Sids |-> IF s = 1 THEN TickersOf("a1") ELSE <<>>]
    /\ chan = [s \in Sids |-> IF s = 1 THEN <<SendQuote(QuoteOf("T1"))>> ELSE <<>>]
    /\ txAlive = [s \in Sids |-> s = 1]
    /\ listen = [s \in Sids |-> IF s = 1 THEN "run" ELSE "none"]
    /\ send = [s \in Sids |-> IF s = 1 THEN "run" ELSE "none"]
    /\ wire = NoDatagram
    /\ last_ping_time = [s \in Sids |-> 0]
    /\ parser_failed = [s \in Sids |-> FALSE]
    /\ sReg = [s \in Sids |-> IF s = 1 THEN "in" ELSE "unused"]
    /\ removedBy = [s \in Sids |-> "none"]
    /\ ioErrors = 1
    /\ now = 0
    /\ recv_start = [s \in Sids |-> 0]
    /\ created_at = [s \in Sids |-> 0]
    /\ ping_rx_at = [s \in Sids |-> -1]

\* The server from there on, while the listener accepts connections and
\* run_loop runs; the generator is between two iterations.
SendErrNext ==
    \/ \E line \in Lines : Accept(line)
    \/ \E line \in Lines : HandleClient(line)
    \/ LoopRecvQuotes
    \/ LoopRecvSubs
    \/ HQUReadQuotes
    \/ HQUReadClients
    \/ HQUFanOut
    \/ \E bind_ok \in BOOLEAN : HandleNewClient(bind_ok)
    \/ ConsumerRecv
    \/ \E th \in Threads : RSLock(th)
    \/ \E th \in Threads : RSNext(th)
    \/ \E th \in Threads : RSJoinListen(th)
    \/ \E th \in Threads : RSJoinSend(th)
    \/ \E th \in Threads : RSDone(th)
    \/ \E s \in Sids : ListenStep(s)
    \/ \E s \in Sids : SendThreadStep(s)

SendErrSpec == SendErrInit /\ [][SendErrNext]_vars

\* The Error event of the send thread of s is still queued, and s is the only
\* session its address ever had.
SendErrorPending(s) ==
    /\ \E i \in 1..Len(events) : events[i] = ErrorEvent(sAddr[s])
    /\ \A s2 \in 1..(nextSid - 1) : s2 # s => sAddr[s2] # sAddr[s]

\* C14: in the fan-out that follows a failed send_to of a registered session
\* the enqueue fails for that session, and the call goes on to remove it.
C14_FanOutRemovesFailedSession ==
    [][\A s \in Sids :
         (FanOutStep /\ s \in Registered /\ SendErrorPending(s)) =>
             /\ chan'[s] = chan[s]
             /\ pc' = "fan_remove"
             /\ sAddr[s] \in rsTodo'["main"]]_vars

\* C15: send_quote on a session whose listen thread has timed out and sent
\* Disconnected fails and enqueues nothing: the fan-out leaves the channel of
\* such a session as it is and puts its address on clients_with_errors.
C15_SendQuoteFailsWhenShuttingDown ==
    [][\A s \in Sids :
         (FanOutStep /\ s \in Registered /\ listen[s] = "timed_out") =>
             /\ chan'[s] = chan[s]
             /\ sAddr[s] \in rsTodo'["main"]]_vars

\* C17: no two sessions that exist (registered, or being stopped) have the
\* same address, and the registry maps every address it holds to the one
\* registered session of that address.
C17_OneSessionPerAddress ==
    /\ \A s1, s2 \in Sids :
         (s1 # s2 /\ sReg[s1] \in {"in", "removed"} /\ sReg[s2] \in {"in", "removed"})
             => sAddr[s1] # sAddr[s2]
    /\ \A s \in Sids : sReg[s] = "in" <=> s \in Registered
    /\ \A a \in Addrs : clients[a] # 0 => sAddr[clients[a]] = a

\* A second NewClient of a registered address has been rejected while the
\* first session of the address is the one the registry holds.
C17_Witness ==
    /\ result = "AddressAlreadyInUse"
    /\ accepted = 2
    /\ \E a \in Addrs : clients[a] = 1 /\ sReg = <<"in", "unused">>

\* C16: one fan-out enqueues at most one SendQuote per ticker to a session,
\* however often the ticker occurs in the session's list.
C16_DuplicateTickersOnce ==
    [][FanOutStep =>
         \A s \in Registered, t \in ServerTickers :
             Cardinality({i \in (Len(chan[s]) + 1)..Len(chan'[s]) :
                             chan'[s][i].quote.ticker = t}) <= 1]_vars

\* C18: every accepted connection gets one handle_client thread, which sends
\* exactly one event: NewClient(address, tickers) for a line of three parts
\* with the header SUBSCRIBE and a socket address, Error for any other line.
\* Neither that thread nor the main loop receiving the Error event changes
\* the registry, creates a session or ends the listener, and a NewClient
\* event for a free address whose socket binds yields a registered session.
C18_OneEventPerConnection ==
    [][/\ accepted' = accepted + 1 =>
            /\ \E l \in Lines : handlers' = [handlers EXCEPT ![l] = @ + 1]
            /\ subsChan' = subsChan
       /\ \A l \in Lines :
            handlers'[l] = handlers[l] - 1 =>
                /\ listenerAlive' = listenerAlive
                /\ clients' = clients /\ nextSid' = nextSid /\ sReg' = sReg
                /\ ~RxDropped =>
                     subsChan' = Append(subsChan,
                         IF Len(l) = 3 /\ l[1] = "SUBSCRIBE" /\ l[2] \in Addrs
                         THEN [type |-> "NewClient", addr |-> l[2], tickers |-> l[3]]
                         ELSE [type |-> "Error"])
       /\ (pc = "select" /\ subsChan # <<>> /\ subsChan' = Tail(subsChan)
             /\ Head(subsChan).type = "Error") =>
                /\ pc' = "select"
                /\ listenerAlive' = listenerAlive
                /\ clients' = clients /\ nextSid' = nextSid /\ sReg' = sReg
       /\ (NewClientStep /\ clients[curEvent.addr] = 0 /\ ioErrors' = ioErrors) =>
                /\ clients'[curEvent.addr] = nextSid
                /\ sReg'[nextSid] = "in"]_vars

\* Two connections were accepted and both events handled: the first line was
\* malformed and left no session, the second, well-formed, has just been
\* answered with the first session.
C18_Witness ==
    /\ accepted = 2
    /\ \A l \in Lines : handlers[l] = 0
    /\ subsChan = <<>>
    /\ ticksRecv = 0
    /\ ioErrors = 0
    /\ result = "Ok"
    /\ nextSid = 2
    /\ sReg[1] = "in"
    /\ listenerAlive

\* C19: the Pinger sends no PING before run_client has started it; run_client
\* sends Start only once, for the first Message it receives; the Pinger keeps
\* the address it got first, and every PING goes to the peer of that first
\* Message, whatever peers later messages come from.
C19_PingTargetIsFirstPeer ==
    [][/\ ping_wire' # "none" => (ping_started' /\ ping_wire' = first_peer')
       /\ command_rx' # command_rx /\ Len(command_rx') > Len(command_rx) =>
            /\ ~ping_started /\ ping_started'
            /\ first_peer = "none"
            /\ command_rx' = Append(command_rx, [cmd |-> "Start", addr |-> first_peer'])
       /\ ping_address # "none" => ping_address' = ping_address
       /\ ping_address' # "none" => ping_address' = first_peer']_vars

\* A PING has just gone to p1, the peer of the first Message, after
\* run_client has received a Message from p2.
C19_Witness ==
    /\ ping_wire = "p1"
    /\ first_peer = "p1"
    /\ last_peer = "p2"
    /\ ping_started

\* C20: the Pinger thread returns an error only on the failure that follows
\* MAX_ERRORS consecutive failed sends.
C20_PingerExitsOnFourthFailure ==
    [][(pingerPc = "recv" /\ pingerPc' = "err") => error_count = MAX_ERRORS]_vars

\* C21: run_client counts the Error events cumulatively: the count changes
\* only by one, on an Error event; a Message leaves it as it is; the loop is
\* left on an Error event exactly when the count has reached MAX_ERRORS.
C21_MainLoopErrorCount ==
    [][/\ main_error_count' # main_error_count =>
            /\ clientPc = "recv" /\ event_rx # <<>>
            /\ Head(event_rx).type = "Error"
            /\ main_error_count' = main_error_count + 1
       /\ (clientPc = "recv" /\ clientPc' # "recv" /\ event_rx # <<>>) =>
            IF Head(event_rx).type = "Error"
            THEN /\ main_error_count' = main_error_count + 1
                 /\ (clientPc' = "shutdown") <=> (main_error_count' = RUN_CLIENT_MAX_ERRORS)
            ELSE main_error_count' = main_error_count]_vars

\* The third Error event has ended the loop, and a Message was handled on
\* the way.
C21_Witness ==
    /\ main_error_count = RUN_CLIENT_MAX_ERRORS
    /\ clientPc = "shutdown"
    /\ first_peer # "none"
    /\ running

ClientTerminated == clientPc = "done" /\ pingerPc \in {"ok", "err"} /\ ~ql_alive

\* C22: once the stop flag is set, run_client, the Pinger and the
\* QuotesListener all terminate, and run_client joins the Pinger before the
\* QuotesListener.
C22_ClientStops ==
    /\ (~running) ~> ClientTerminated
    /\ [][/\ clientPc' = "join_listener" /\ clientPc # "join_listener" =>
              (clientPc = "join_pinger" /\ pingerPc \in {"ok", "err"})
          /\ clientPc' = "done" /\ clientPc # "done" =>
              (clientPc = "join_listener" /\ ~ql_alive)]_vars

\* Ctrl-C has set the flag while run_client waits in recv() on the empty
\* channel and both workers still run.
C22_Witness ==
    /\ ~running
    /\ clientPc = "recv"
    /\ event_rx = <<>>
    /\ ql_alive
    /\ pingerPc = "recv"

\* C23: the encoding of one datagram with a payload of at most 65535 bytes,
\* fed to a fresh parser in one call, yields that datagram alone and leaves
\* the buffer empty.
C23_EncodeParseRoundTrip ==
    [][(/\ calls = 0 /\ pos' = Len(stream)
        /\ Len(frames) = 1 /\ Len(frames[1]) <= U16_MAX) =>
            /\ parse_out' = [ok |-> TRUE, datagrams |-> <<frames[1]>>]
            /\ buffer' = <<>>]_vars

\* A payload whose length fills both length bytes has been parsed in one
\* call.
C23_Witness ==
    /\ Len(frames) = 1 /\ Len(frames[1]) = LongPayloadLen
    /\ calls = 1 /\ pos = Len(stream)
    /\ parse_out.ok /\ parse_out.datagrams = frames

\* parsed is the beginning of all.
IsPrefix(parsed, all) ==
    Len(parsed) <= Len(all) /\ parsed = SubSeq(all, 1, Len(parsed))

\* C24: the encodings of two datagrams, fed in any chunks to one parser:
\* no call fails, the results of the calls concatenate to the two datagrams,
\* and a call that returns nothing has kept all the bytes it was given.
C24_ChunkedParse ==
    [][(Len(frames) = 2 /\ calls' = calls + 1) =>
            /\ parse_out'.ok
            /\ IsPrefix(parsed_all', frames)
            /\ pos' = Len(stream) => parsed_all' = frames
            /\ parse_out'.datagrams = <<>> =>
                  buffer' = buffer \o SubSeq(stream, pos + 1, pos')]_vars

\* The first datagram is out, and the latest call ended inside the second:
\* it returned nothing and the parser holds the bytes.
C24_Witness ==
    /\ Len(frames) = 2
    /\ parsed_all = <<frames[1]>>
    /\ parse_out.datagrams = <<>>
    /\ buffer # <<>>
    /\ calls >= 2

\* C25: six or more bytes that do not start with the magic make the first
\* call of a fresh parser fail, and every call after a failed one fails.
C25_BadMagicIsSticky ==
    [][calls' = calls + 1 =>
            /\ (calls = 0 /\ pos' >= 6 /\ SubSeq(stream, 1, 4) # HEADER) =>
                  (~parse_out'.ok /\ failed_at' = 1)
            /\ failed_at # 0 => ~parse_out'.ok]_vars

\* The first call failed on garbage; a later call was given the rest, which
\* ends with a well-formed datagram, and failed too.
C25_Witness ==
    /\ frames = <<>>
    /\ failed_at = 1
    /\ calls = 2
    /\ pos = Len(stream)
    /\ Len(buffer) = Len(stream)
    /\ ~parse_out.ok

\* C28: in the listen thread a datagram that does not parse, or that is no
\* PING, changes nothing: last_ping_time stays, no event is sent, the thread
\* runs on; and a PING that arrives while the timeout has not expired, also
\* after such a datagram, sets last_ping_time to the time of its arrival.
C28_NonPingIgnored ==
    [][\A s \in Sids :
         /\ (/\ listen[s] = "run"
             /\ ping_rx_at'[s] = ping_rx_at[s]
             /\ ~timed_out(now', last_ping_time[s])) =>
                /\ last_ping_time'[s] = last_ping_time[s]
                /\ listen'[s] = "run"
                /\ events' = events
         /\ (/\ listen[s] = "run"
             /\ ping_rx_at'[s] # ping_rx_at[s]
             /\ ~timed_out(now, last_ping_time[s])) =>
                last_ping_time'[s] = now]_vars

\* C26: decoding the encoding of a quote succeeds and yields the quote,
\* field by field, whatever the bytes of price, volume and timestamp.
C26_QuoteRoundTrip ==
    quotePc = "decoded" => (quote_out.ok /\ quote_out.quote = quote_in)

\* C27: parsing the text of a SubscribeMessage succeeds and yields its
\* address and its ticker list.
C27_SubscribeRoundTrip ==
    msgPc = "parsed" => (msg_out.ok /\ msg_out.msg = msg_in)

\* The recv() of run_loop finds its channel empty with every sender gone.
InputChannelLost ==
    \/ ticksPending = 0 /\ genPc = "dead"
    \/ subsChan = <<>> /\ ~listenerAlive /\ \A l \in Lines : handlers[l] = 0

\* C29: run_loop takes one event from one of its channels per iteration and
\* none while it handles one; it returns only when an input channel is lost;
\* after a failed handle_new_client and after an Error event it is back at
\* select.ready().
C29_LoopSurvivesErrors ==
    [][/\ (pc = "select" /\ pc' \notin {"select", "ch_stop"}) =>
            \/ ticksPending' = ticksPending - 1 /\ subsChan' = subsChan
            \/ ticksPending' = ticksPending /\ subsChan' = Tail(subsChan)
       /\ pc # "select" => (ticksPending' >= ticksPending /\ Len(subsChan') >= Len(subsChan))
       /\ (pc' = "ch_stop" /\ pc # "ch_stop") => (pc = "select" /\ InputChannelLost)
       /\ (pc = "new_client" /\ result' \in {"AddressAlreadyInUse", "Io"}) => pc' = "select"
       /\ (/\ pc = "select" /\ subsChan # <<>> /\ Len(subsChan') < Len(subsChan)
           /\ Head(subsChan).type = "Error") => pc' = "select"]_vars

\* Both connections were handled, one of them without a session to show for
\* it (an Error event or a failed handle_new_client), and run_loop has taken
\* the tick that came after.
C29_Witness ==
    /\ pc = "fan_quotes"
    /\ accepted = MaxSubs
    /\ subsChan = <<>>
    /\ \A l \in Lines : handlers[l] = 0
    /\ nextSid = 2

\* C30: no thread holds the write guard of the registry while it executes
\* the stop() of a session it has removed.
C30_NoLockDuringStop ==
    \A th \in Threads : rsCur[th] # 0 => clientsLock # th

\* C31: a SendQuote that leaves the command channel of a session whose send
\* thread runs was received by that send thread, which attempts the send:
\* the datagram goes out or send_to fails.
C31_SendQuoteOnlyToSendThread ==
    [][\A s \in Sids :
         (/\ send[s] = "run"
          /\ chan[s] # <<>>
          /\ chan'[s] = Tail(chan[s])
          /\ Head(chan[s]).cmd = "SendQuote") =>
             \/ wire' = [sid |-> s, quote |-> Head(chan[s]).quote]
             \/ ioErrors' = ioErrors + 1]_vars

\* C32: the QuotesUpdated events sent so far, queued or received, never
\* outnumber the snapshots installed: when the main loop receives the k-th
\* event and reads the snapshot for it, the snapshot is that of the k-th
\* iteration of the generator or a later one.
C32_SnapshotBeforeEvent ==
    /\ ticksRecv + ticksPending <= quotes
    /\ pc \in {"fan_quotes", "fan_clients", "fan_send"} => quotes >= ticksRecv

\* The main loop holds the read guard for the first event while the snapshot
\* is already that of the second iteration.
C32_Witness ==
    /\ pc = "fan_clients"
    /\ quotesReadHeld
    /\ ticksRecv = 1
    /\ quotes = 2

\* C33: the fan-out of handle_quotes_updated enqueues under the read guards
\* of the snapshot and of the registry, both held together; while a guard is
\* held the snapshot is not replaced and no session is added to or removed
\* from the registry, so the quotes one call enqueues all come from the one
\* generation the snapshot had when the guard was taken.
C33_FanOutUnderBothReadGuards ==
    [][/\ clientsReadHeld => quotesReadHeld
       /\ quotesReadHeld => quotes' = quotes
       /\ clientsReadHeld => clients' = clients /\ clientsLock' = "free"
       /\ FanOutStep =>
             /\ quotesReadHeld /\ clientsReadHeld
             /\ \A s \in Sids :
                  /\ Len(chan'[s]) >= Len(chan[s])
                  /\ \A i \in (Len(chan[s]) + 1)..Len(chan'[s]) :
                       chan'[s][i] \in {SendQuote(QuoteOf(tk)) : tk \in ServerTickers}]_vars

\* A fan-out has enqueued two quotes of the first generation for one session
\* and the generator, held back meanwhile, has installed the second.
C33_Witness ==
    /\ pc = "select"
    /\ ticksRecv = 1
    /\ quotes = 2
    /\ \E s \in Sids :
         /\ Len(chan[s]) = 2
         /\ \A i \in 1..2 : chan[s][i].cmd = "SendQuote" /\ chan[s][i].quote.gen = 1

\* A worker of s has exited.
Stopping(s) == listen[s] \in {"stopped", "timed_out"} \/ send[s] = "done"

\* C34: a worker of a session that has exited stays exited, so a session
\* that has left the state with both workers running never returns to it;
\* the first exit of a worker is the listen thread finding the ping timeout
\* expired, or follows a stop() of the session; and Disconnected is sent
\* only in the step in which a listen thread exits on the timeout, which a
\* session takes at most once.
C34_LifecycleMonotone ==
    [][/\ \A s \in Sids :
            /\ listen[s] \in {"stopped", "timed_out"} => listen'[s] = listen[s]
            /\ send[s] = "done" => send'[s] = "done"
            /\ Stopping(s) => ~(listen'[s] = "run" /\ send'[s] = "run")
            /\ (~Stopping(s) /\ listen[s] = "run" /\ Stopping(s)') =>
                  \/ DisconnectStep(s)
                  \/ sReg[s] = "removed"
       /\ \A a \in Addrs :
            events' = Append(events, Disconnected(a)) =>
                \E s \in Sids :
                    /\ sAddr[s] = a
                    /\ DisconnectStep(s)
                    /\ \A s2 \in Sids \ {s} : listen'[s2] = listen[s2]]_vars

\* One session has gone from Running to Stopped by the timeout and the
\* consumer's stop(); the listen thread of another has exited on the Stop of
\* the stop() of the shutdown.
C34_Witness ==
    /\ listen = <<"timed_out", "stopped">>
    /\ send = <<"done", "run">>
    /\ sReg = <<"stopped", "removed">>
    /\ removedBy = <<"consumer", "main">>

\* C35: a session the consumer thread removes from the registry is one whose
\* listen thread has exited on the timeout, that is has sent Disconnected;
\* the consumer starts remove_and_stop_clients only on taking a Disconnected
\* event, for the address of that event, and taking an Error event changes
\* neither the registry nor the state of the consumer.
C35_ConsumerRemovesOnDisconnected ==
    [][/\ \A s \in Sids :
            (removedBy[s] # "consumer" /\ removedBy'[s] = "consumer") =>
                listen[s] = "timed_out"
       /\ (rsPc["consumer"] = "idle" /\ rsPc'["consumer"] # "idle") =>
            /\ events # <<>>
            /\ Head(events).type = "Disconnected"
            /\ rsTodo'["consumer"] = {Head(events).addr}
       /\ (events # <<>> /\ events' = Tail(events) /\ Head(events).type = "Error") =>
            /\ rsPc' = rsPc
            /\ rsTodo' = rsTodo
            /\ clients' = clients]_vars

\* The consumer has taken the Error event of a failed send_to of the second
\* session, which is still registered, and has removed and stopped the
\* first, which had timed out.
C35_Witness ==
    /\ sReg = <<"stopped", "in">>
    /\ removedBy[1] = "consumer"
    /\ listen[1] = "timed_out"
    /\ ioErrors = 1
    /\ events = <<>>
    /\ rsPc["consumer"] = "idle"

\* A worker of s runs.
WorkerRuns(s) == listen[s] = "run" \/ send[s] = "run"

\* C36: no address has two sessions with a running worker; when a session
\* exists for an address that had an earlier session, both workers of the
\* earlier one have exited and its stop() has returned.
C36_OneLiveSessionPerAddress ==
    /\ \A a \in Addrs :
         Cardinality({s \in Sids : sAddr[s] = a /\ WorkerRuns(s)}) <= 1
    /\ \A s1, s2 \in Sids :
         (s1 < s2 /\ sReg[s2] # "unused" /\ sAddr[s1] = sAddr[s2]) =>
             /\ ~WorkerRuns(s1)
             /\ sReg[s1] = "stopped"

\* The second session of an address runs after the first one has timed out
\* and has been removed and joined.
C36_Witness ==
    /\ sAddr[1] = sAddr[2]
    /\ sReg = <<"stopped", "in">>
    /\ listen = <<"timed_out", "run">>
    /\ send = <<"done", "run">>

\* C37: the session the consumer thread removes for a Disconnected(a) is the
\* one that sent the event: its listen thread has exited on the timeout,
\* every other session of a that has timed out was itself removed by the
\* consumer, each on an event of its own, and no further Disconnected(a) is
\* queued.
C37_NoStaleDisconnected ==
    [][\A s \in Sids :
         (removedBy[s] # "consumer" /\ removedBy'[s] = "consumer") =>
             /\ listen[s] = "timed_out"
             /\ \A s2 \in Sids \ {s} :
                  (sReg[s2] # "unused" /\ sAddr[s2] = sAddr[s]) =>
                      listen[s2] = "timed_out" /\ removedBy[s2] = "consumer"
             /\ \A i \in 1..Len(events) : events[i] # Disconnected(sAddr[s])]_vars

\* Two sessions of one address have timed out one after the other, and the
\* consumer has removed each of them.
C37_Witness ==
    /\ sAddr[1] = sAddr[2]
    /\ removedBy = <<"consumer", "consumer">>
    /\ listen = <<"timed_out", "timed_out">>

FrameThenGarbage == frames = <<>> /\ ParseResultFrom(stream).kind = "Datagram"

====
